---- MODULE Spec2Model ----
(***************************************************************************)
(* Model of the translation engine of src/app.py: NLToSQLConverter         *)
(* (generate_sql_rule_based, generate_sql, generate_helpful_template,      *)
(* try_ai_generation, clean_sql_output).  Texts are TLA+ strings handled   *)
(* character by character, as the Python code handles them.                *)
(***************************************************************************)
EXTENDS Integers, Sequences, FiniteSets, TLC

(***************************************************************************)
(* Python string primitives used by the code.                              *)
(***************************************************************************)
CharAt(s, i) == SubSeq(s, i, i)

\* the characters str.strip() and the regex class \s remove (ASCII)
Whitespace == {" ", "\n", "\t", "\r"}

UpperLetters == "ABCDEFGHIJKLMNOPQRSTUVWXYZ"

LowerLetters == "abcdefghijklmnopqrstuvwxyz"

\* the letter-to-letter maps of str.lower() and str.upper()
ToLower == [c \in {CharAt(UpperLetters, i) : i \in 1..26} |->
              CharAt(LowerLetters, CHOOSE i \in 1..26 : CharAt(UpperLetters, i) = c)]

ToUpper == [c \in {CharAt(LowerLetters, i) : i \in 1..26} |->
              CharAt(UpperLetters, CHOOSE i \in 1..26 : CharAt(LowerLetters, i) = c)]

\* s with every character in the domain of map replaced by its image (the
\* text is mapped half by half, which keeps the evaluation shallow on long texts)
RECURSIVE MapLetters(_, _)
MapLetters(s, map) ==
  IF Len(s) = 0 THEN ""
  ELSE IF Len(s) = 1 THEN (IF s \in DOMAIN map THEN map[s] ELSE s)
  ELSE LET half == Len(s) \div 2
       IN MapLetters(SubSeq(s, 1, half), map) \o MapLetters(SubSeq(s, half + 1, Len(s)), map)

\* str.lower()
Lower(s) == MapLetters(s, ToLower)

\* str.upper()
Upper(s) == MapLetters(s, ToUpper)

RECURSIVE LStrip(_)
LStrip(s) ==
  IF s # "" /\ CharAt(s, 1) \in Whitespace THEN LStrip(SubSeq(s, 2, Len(s))) ELSE s

RECURSIVE RStrip(_)
RStrip(s) ==
  IF s # "" /\ CharAt(s, Len(s)) \in Whitespace THEN RStrip(SubSeq(s, 1, Len(s) - 1)) ELSE s

\* str.strip()
Strip(s) == RStrip(LStrip(s))

\* str.startswith(prefix)
StartsWith(s, prefix) == Len(s) >= Len(prefix) /\ SubSeq(s, 1, Len(prefix)) = prefix

\* the first position at or after i where sub occurs in s, 0 when none
FindFrom(s, sub, i) ==
  LET hits == {k \in i..(Len(s) - Len(sub) + 1) : SubSeq(s, k, k + Len(sub) - 1) = sub}
  IN IF hits = {} THEN 0 ELSE CHOOSE k \in hits : \A j \in hits : k <= j

\* str.find(sub), 1-based; 0 when sub does not occur
Find(s, sub) == FindFrom(s, sub, 1)

\* sub in s
Contains(s, sub) == Find(s, sub) # 0

\* str.split(sep) for a one-character separator
RECURSIVE Split(_, _)
Split(s, sep) ==
  LET k == Find(s, sep)
  IN IF k = 0 THEN <<s>>
     ELSE <<SubSeq(s, 1, k - 1)>> \o Split(SubSeq(s, k + 1, Len(s)), sep)

\* sep.join(parts)
RECURSIVE Join(_, _)
Join(parts, sep) ==
  IF parts = <<>> THEN ""
  ELSE IF Len(parts) = 1 THEN parts[1]
  ELSE parts[1] \o sep \o Join(Tail(parts), sep)

(***************************************************************************)
(* Schema parsing inside generate_sql_rule_based (app.py 454-472).         *)
(* A parse state holds the Python locals tables, columns, current_table    *)
(* (open = FALSE stands for None) and whether an exception was raised.     *)
(***************************************************************************)
ParseStart ==
  [tables |-> <<>>, columns |-> <<>>, open |-> FALSE, current_table |-> "", raised |-> FALSE]

\* columns[name] = value, on a dict
DictSet(d, name, value) ==
  [k \in (DOMAIN d) \cup {name} |-> IF k = name THEN value ELSE d[k]]

\* a slip: a table line keeps the columns already listed under the name
ParseLineKeepingColumns(st, raw) ==
  LET line == Strip(raw)
  IN IF st.raised THEN st
     ELSE IF StartsWith(line, "Table:")
     THEN LET parts == Split(line, ":")
          IN IF Len(parts) < 2
             THEN [st EXCEPT !.raised = TRUE]
             ELSE LET name == Strip(parts[2])
                  IN [st EXCEPT !.tables = Append(st.tables, name),
                                !.columns = DictSet(st.columns, name,
                                                    IF name \in DOMAIN st.columns
                                                    THEN st.columns[name] ELSE <<>>),
                                !.open = TRUE,
                                !.current_table = name]
     ELSE IF StartsWith(line, "- ") /\ st.open /\ st.current_table # ""
     THEN LET col_info == Strip(SubSeq(line, 3, Len(line)))
          IN IF Contains(col_info, ":")
             THEN LET col_name == Strip(Split(col_info, ":")[1])
                  IN [st EXCEPT !.columns =
                        DictSet(st.columns, st.current_table,
                                Append(st.columns[st.current_table], col_name))]
             ELSE st
     ELSE st

\* the body of "for line in lines" for one line
ParseLine(st, raw) ==
  LET line == Strip(raw)
  IN IF st.raised THEN st
     ELSE IF StartsWith(line, "Table:")
     THEN LET parts == Split(line, ":")
          IN IF Len(parts) < 2
             THEN [st EXCEPT !.raised = TRUE]          \* IndexError on [1]
             ELSE LET name == Strip(parts[2])
                  IN [st EXCEPT !.tables = Append(st.tables, name),
                                !.columns = DictSet(st.columns, name, <<>>),
                                !.open = TRUE,
                                !.current_table = name]
     ELSE IF StartsWith(line, "- ") /\ st.open /\ st.current_table # ""
     THEN LET col_info == Strip(SubSeq(line, 3, Len(line)))
          IN IF Contains(col_info, ":")
             THEN LET col_name == Strip(Split(col_info, ":")[1])
                  IN [st EXCEPT !.columns =
                        DictSet(st.columns, st.current_table,
                                Append(st.columns[st.current_table], col_name))]
             ELSE st
     ELSE st

RECURSIVE ParseLines(_, _)
ParseLines(st, lines) ==
  IF lines = <<>> THEN st ELSE ParseLines(ParseLine(st, Head(lines)), Tail(lines))

ParseSchema(schema_info) == ParseLines(ParseStart, Split(schema_info, "\n"))

(***************************************************************************)
(* The rule cascade of generate_sql_rule_based (app.py 474-541).           *)
(***************************************************************************)
Returned(sql, ok) == [sql |-> sql, ok |-> ok, raised |-> FALSE]

\* an exception that leaves the function
Raised == [sql |-> "", ok |-> FALSE, raised |-> TRUE]

\* a rule that did not return: control falls through to the next pattern
FallThrough == [hit |-> FALSE, sql |-> ""]

Hit(sql) == [hit |-> TRUE, sql |-> sql]

\* name in [col.lower() for col in columns.get(table, [])]
HasColumn(columns, table, name) ==
  \E i \in DOMAIN columns[table] : Lower(columns[table][i]) = name

\* the names in the list of tables
Names(tables) == {tables[i] : i \in DOMAIN tables}

\* for table in tables: if <test>: return ...
\* index of the first table of the list whose test holds, 0 when none; holds
\* maps each table name to the outcome of the test
FirstTable(tables, holds) ==
  IF \E i \in DOMAIN tables : holds[tables[i]]
  THEN CHOOSE i \in DOMAIN tables : holds[tables[i]] /\ \A j \in 1..(i - 1) : ~holds[tables[j]]
  ELSE 0

\* any(word in text for word in words)
AnyWord(text, words) == \E w \in words : Contains(text, w)

\* a slip: the table name is written lower-cased into the statement
RuleEngineeringLowerCased(ql, tables, columns) ==
  IF Contains(ql, "engineering")
     /\ \E t \in DOMAIN columns : \E i \in DOMAIN columns[t] : Contains(columns[t][i], "department")
  THEN LET k == FirstTable(tables, [t \in Names(tables) |-> HasColumn(columns, t, "department")])
       IN IF k # 0
          THEN Hit("SELECT * FROM " \o Lower(tables[k]) \o " WHERE department = 'Engineering';")
          ELSE FallThrough
  ELSE FallThrough

\* Pattern: Department/category filtering (483-487)
RuleEngineering(ql, tables, columns) ==
  IF Contains(ql, "engineering")
     /\ \E t \in DOMAIN columns : \E i \in DOMAIN columns[t] : Contains(columns[t][i], "department")
  THEN LET k == FirstTable(tables, [t \in Names(tables) |-> HasColumn(columns, t, "department")])
       IN IF k # 0
          THEN Hit("SELECT * FROM " \o tables[k] \o " WHERE department = 'Engineering';")
          ELSE FallThrough
  ELSE FallThrough

\* Pattern: Average salary (489-495)
RuleAverageSalary(ql, tables, columns) ==
  IF Contains(ql, "average") /\ Contains(ql, "salary")
  THEN LET k == FirstTable(tables, [t \in Names(tables) |-> HasColumn(columns, t, "salary")])
       IN IF k = 0 THEN FallThrough
          ELSE IF HasColumn(columns, tables[k], "department")
          THEN Hit("SELECT department, AVG(salary) as avg_salary FROM " \o tables[k]
                   \o " GROUP BY department;")
          ELSE Hit("SELECT AVG(salary) as average_salary FROM " \o tables[k] \o ";")
  ELSE FallThrough

\* Pattern: Top/highest products by price (497-501)
RuleTopPrice(ql, tables, columns) ==
  IF AnyWord(ql, {"top", "highest"}) /\ Contains(ql, "price")
  THEN LET k == FirstTable(tables, [t \in Names(tables) |-> HasColumn(columns, t, "price")])
       IN IF k # 0
          THEN Hit("SELECT * FROM " \o tables[k] \o " ORDER BY price DESC LIMIT 5;")
          ELSE FallThrough
  ELSE FallThrough

\* Count queries that always count the main table
RuleCountMainTable(ql, tables, main_table) ==
  IF Contains(ql, "count")
  THEN Hit("SELECT COUNT(*) as total_count FROM " \o main_table \o ";")
  ELSE FallThrough

\* Pattern: Count queries (503-508)
RuleCount(ql, tables, main_table) ==
  IF Contains(ql, "count")
  THEN LET k == FirstTable(tables, [t \in Names(tables) |-> Contains(ql, Lower(t))])
       IN IF k # 0
          THEN Hit("SELECT COUNT(*) as total_count FROM " \o tables[k] \o ";")
          ELSE Hit("SELECT COUNT(*) as total_count FROM " \o main_table \o ";")
  ELSE FallThrough

\* Pattern: Show all specific table (510-513)
RuleShowTable(ql, tables) ==
  LET k == FirstTable(tables, [t \in Names(tables) |-> Contains(ql, Lower(t))
                                          /\ AnyWord(ql, {"show", "list", "display"})])
  IN IF k # 0 THEN Hit("SELECT * FROM " \o tables[k] \o ";") ELSE FallThrough

\* Pattern: Stock quantity less than (515-519)
RuleStock(ql, tables, columns) ==
  IF Contains(ql, "stock") /\ AnyWord(ql, {"less", "below", "under"})
  THEN LET k == FirstTable(tables, [t \in Names(tables) |-> HasColumn(columns, t, "stock_quantity")])
       IN IF k # 0
          THEN Hit("SELECT * FROM " \o tables[k] \o " WHERE stock_quantity < 50;")
          ELSE FallThrough
  ELSE FallThrough

\* Pattern: Sales by employee (521-526); "" stands for next(..., None), both falsy
RuleSalesByEmployee(ql, tables) ==
  IF Contains(ql, "sales") /\ Contains(ql, "employee")
  THEN LET s == FirstTable(tables, [t \in Names(tables) |-> Contains(Lower(t), "sales")])
           e == FirstTable(tables, [t \in Names(tables) |-> Contains(Lower(t), "employee")])
           sales_table == IF s = 0 THEN "" ELSE tables[s]
           emp_table == IF e = 0 THEN "" ELSE tables[e]
       IN IF sales_table # "" /\ emp_table # ""
          THEN Hit("SELECT e.name, SUM(s.total_amount) as total_sales FROM " \o emp_table
                   \o " e JOIN " \o sales_table
                   \o " s ON e.id = s.employee_id GROUP BY e.id, e.name;")
          ELSE FallThrough
  ELSE FallThrough

\* Pattern: Electronics category (528-532)
RuleElectronics(ql, tables, columns) ==
  IF Contains(ql, "electronics")
  THEN LET k == FirstTable(tables, [t \in Names(tables) |-> HasColumn(columns, t, "category")])
       IN IF k # 0
          THEN Hit("SELECT * FROM " \o tables[k] \o " WHERE category = 'Electronics';")
          ELSE FallThrough
  ELSE FallThrough

\* Pattern: Hired after date (534-538)
RuleHiredAfter(ql, tables, columns) ==
  IF Contains(ql, "hired after") \/ Contains(ql, "hire_date")
  THEN LET k == FirstTable(tables, [t \in Names(tables) |-> HasColumn(columns, t, "hire_date")])
       IN IF k # 0
          THEN Hit("SELECT * FROM " \o tables[k] \o " WHERE hire_date > '2022-01-01';")
          ELSE FallThrough
  ELSE FallThrough

\* Default: Simple SELECT from main table (540-541)
RuleDefault(main_table) == Hit("SELECT * FROM " \o main_table \o " LIMIT 10;")

\* a slip: the last table is taken for the main table
MainTableLast(tables) == tables[Len(tables)]

\* main_table = tables[0] (479)
MainTable(tables) == tables[1]

\* the patterns in the order the code tries them; the first that returns wins
Cascade(ql, tables, columns) ==
  LET main_table == MainTable(tables)
      r1 == RuleEngineering(ql, tables, columns)
      r2 == RuleAverageSalary(ql, tables, columns)
      r3 == RuleTopPrice(ql, tables, columns)
      r4 == RuleCount(ql, tables, main_table)
      r5 == RuleShowTable(ql, tables)
      r6 == RuleStock(ql, tables, columns)
      r7 == RuleSalesByEmployee(ql, tables)
      r8 == RuleElectronics(ql, tables, columns)
      r9 == RuleHiredAfter(ql, tables, columns)
  IN IF r1.hit THEN r1 ELSE IF r2.hit THEN r2 ELSE IF r3.hit THEN r3
     ELSE IF r4.hit THEN r4 ELSE IF r5.hit THEN r5 ELSE IF r6.hit THEN r6
     ELSE IF r7.hit THEN r7 ELSE IF r8.hit THEN r8 ELSE IF r9.hit THEN r9
     ELSE RuleDefault(main_table)

generate_sql_rule_based(question, schema_info) ==
  LET p == ParseSchema(schema_info)
  IN IF p.raised
     THEN Returned("-- Error in rule-based generation: list index out of range", FALSE)
     ELSE IF p.tables = <<>>
     THEN Returned("-- Please provide database schema to generate SQL", FALSE)
     ELSE Returned(Cascade(Lower(question), p.tables, p.columns).sql, TRUE)

(***************************************************************************)
(* generate_helpful_template (app.py 568-631).                             *)
(***************************************************************************)
\* a slip: the element after the table name is read, line.split(':')[2]
TemplateLineOffByOne(st, line) ==
  IF st.raised THEN st
  ELSE IF StartsWith(Strip(line), "Table:")
  THEN LET parts == Split(line, ":")
       IN IF Len(parts) < 3
          THEN [st EXCEPT !.raised = TRUE]
          ELSE [st EXCEPT !.tables = Append(st.tables, Strip(parts[3]))]
  ELSE st

\* "for line in lines: if line.strip().startswith('Table:')" for one line;
\* st holds the list tables and whether line.split(':')[1] raised
TemplateLine(st, line) ==
  IF st.raised THEN st
  ELSE IF StartsWith(Strip(line), "Table:")
  THEN LET parts == Split(line, ":")
       IN IF Len(parts) < 2
          THEN [st EXCEPT !.raised = TRUE]
          ELSE [st EXCEPT !.tables = Append(st.tables, Strip(parts[2]))]
  ELSE st

RECURSIVE TemplateLines(_, _)
TemplateLines(st, lines) ==
  IF lines = <<>> THEN st ELSE TemplateLines(TemplateLine(st, Head(lines)), Tail(lines))

TemplateNoSchema ==
  "-- No schema provided. Please define your database schema first.\n"
  \o "-- Example:\n"
  \o "-- SELECT * FROM your_table_name;"

TemplateCount(main_table) ==
  "-- Count query template:\n"
  \o "SELECT COUNT(*) as total_count \n"
  \o "FROM " \o main_table \o ";\n"
  \o "\n"
  \o "-- To count specific conditions, add WHERE clause:\n"
  \o "-- SELECT COUNT(*) FROM " \o main_table \o " WHERE column_name = 'value';"

TemplateAverage(main_table) ==
  "-- Average calculation template:\n"
  \o "SELECT AVG(numeric_column) as average_value \n"
  \o "FROM " \o main_table \o ";\n"
  \o "\n"
  \o "-- To group by category:\n"
  \o "-- SELECT category, AVG(numeric_column) FROM " \o main_table \o " GROUP BY category;"

TemplateTop(main_table) ==
  "-- Top records template:\n"
  \o "SELECT * \n"
  \o "FROM " \o main_table \o " \n"
  \o "ORDER BY column_name DESC \n"
  \o "LIMIT 10;\n"
  \o "\n"
  \o "-- Replace 'column_name' with the actual column you want to sort by"

TemplateShow(main_table) ==
  "-- Show records template:\n"
  \o "SELECT * \n"
  \o "FROM " \o main_table \o ";\n"
  \o "\n"
  \o "-- To filter specific records:\n"
  \o "-- SELECT * FROM " \o main_table \o " WHERE column_name = 'value';"

TemplateGeneric(main_table, tables) ==
  "-- Generic query template based on your question:\n"
  \o "SELECT * \n"
  \o "FROM " \o main_table \o " \n"
  \o "LIMIT 10;\n"
  \o "\n"
  \o "-- Available tables: " \o Join(tables, ", ") \o "\n"
  \o "-- Modify this query based on your specific needs"

\* a slip: the show/list/display/get words are looked for first
generate_helpful_template_show_first(question, schema_info) ==
  LET p == TemplateLines([tables |-> <<>>, raised |-> FALSE], Split(schema_info, "\n"))
      tables == p.tables
      main_table == tables[1]
      question_lower == Lower(question)
  IN IF p.raised THEN Raised
     ELSE IF tables = <<>> THEN Returned(TemplateNoSchema, TRUE)
     ELSE IF AnyWord(question_lower, {"show", "list", "display", "get"})
     THEN Returned(TemplateShow(main_table), TRUE)
     ELSE IF AnyWord(question_lower, {"count", "how many"})
     THEN Returned(TemplateCount(main_table), TRUE)
     ELSE IF AnyWord(question_lower, {"average", "avg", "mean"})
     THEN Returned(TemplateAverage(main_table), TRUE)
     ELSE IF AnyWord(question_lower, {"top", "highest", "best", "maximum"})
     THEN Returned(TemplateTop(main_table), TRUE)
     ELSE Returned(TemplateGeneric(main_table, tables), TRUE)

generate_helpful_template(question, schema_info) ==
  LET p == TemplateLines([tables |-> <<>>, raised |-> FALSE], Split(schema_info, "\n"))
      tables == p.tables
      main_table == tables[1]
      question_lower == Lower(question)
  IN IF p.raised THEN Raised
     ELSE IF tables = <<>> THEN Returned(TemplateNoSchema, TRUE)
     ELSE IF AnyWord(question_lower, {"count", "how many"})
     THEN Returned(TemplateCount(main_table), TRUE)
     ELSE IF AnyWord(question_lower, {"average", "avg", "mean"})
     THEN Returned(TemplateAverage(main_table), TRUE)
     ELSE IF AnyWord(question_lower, {"top", "highest", "best", "maximum"})
     THEN Returned(TemplateTop(main_table), TRUE)
     ELSE IF AnyWord(question_lower, {"show", "list", "display", "get"})
     THEN Returned(TemplateShow(main_table), TRUE)
     ELSE Returned(TemplateGeneric(main_table, tables), TRUE)

(***************************************************************************)
(* clean_sql_output (app.py 671-696).                                      *)
(***************************************************************************)
\* re.sub(fence + '\n?', '', s): every non-overlapping occurrence of fence,
\* with the newline that follows it when there is one, is removed
RECURSIVE RemoveFence(_, _)
RemoveFence(s, fence) ==
  LET k == Find(s, fence)
      after == SubSeq(s, k + Len(fence), Len(s))
      rest == IF StartsWith(after, "\n") THEN SubSeq(after, 2, Len(after)) ELSE after
  IN IF k = 0 THEN s ELSE SubSeq(s, 1, k - 1) \o RemoveFence(rest, fence)

\* the Markdown code fence, three grave accents; a TLA+ string cannot hold a
\* grave accent, so "~" stands for it in every text of this module
Fence == "~~~"

prefixes_to_remove == <<"SQL:", "Query:", "Answer:">>

\* for prefix in prefixes_to_remove: if sql.startswith(prefix): sql = sql[len(prefix):].strip()
RECURSIVE RemovePrefixes(_, _)
RemovePrefixes(sql, prefixes) ==
  IF prefixes = <<>> THEN sql
  ELSE LET prefix == Head(prefixes)
       IN RemovePrefixes(IF StartsWith(sql, prefix)
                         THEN Strip(SubSeq(sql, Len(prefix) + 1, Len(sql)))
                         ELSE sql,
                         Tail(prefixes))

sql_keywords == <<"SELECT", "INSERT", "UPDATE", "DELETE", "WITH", "CREATE">>

\* for keyword in sql_keywords: if keyword in sql.upper(): cut before it; break
CutAtKeyword(sql) ==
  LET up == Upper(sql)
      present == {i \in DOMAIN sql_keywords : Contains(up, sql_keywords[i])}
  IN IF present = {} THEN sql
     ELSE LET i == CHOOSE i \in present : \A j \in present : i <= j
          IN SubSeq(sql, Find(up, sql_keywords[i]), Len(sql))

\* re.sub(r'\s+', ' ', s)
RECURSIVE CollapseWhitespace(_)
CollapseWhitespace(s) ==
  IF s = "" THEN ""
  ELSE IF CharAt(s, 1) \in Whitespace
  THEN " " \o CollapseWhitespace(LStrip(s))
  ELSE CharAt(s, 1) \o CollapseWhitespace(SubSeq(s, 2, Len(s)))

clean_sql_output(raw_output) ==
  LET stripped == Strip(raw_output)
      unfenced == RemoveFence(RemoveFence(stripped, Fence \o "sql"), Fence)
      unprefixed == RemovePrefixes(unfenced, prefixes_to_remove)
      cut == CutAtKeyword(unprefixed)
  IN Strip(CollapseWhitespace(cut))

(***************************************************************************)
(* try_ai_generation (app.py 633-669): one pass of "for model in           *)
(* self.models" per backend response.                                      *)
(***************************************************************************)
\* self.models (app.py 413-418)
models ==
  <<"defog/sqlcoder-7b-2", "NumbersStation/nsql-llama-2-7B",
    "microsoft/DialoGPT-medium", "google/flan-t5-large">>

\* what requests.post can do: raise (timeout, connection error) or give a
\* response with a status code and a body; json says what response.json()
\* yields and text is result[0]["generated_text"] when it is a string
GeneratedTexts ==
  { Fence \o "sql\nSQL: SELECT * FROM t;\n" \o Fence,
    "Answer: SELECT id FROM employees",
    "SELECT 12;",
    "SELECT 123;",
    "I cannot help with that.",
    "Query:   \n",
    "" }

JsonShapes ==
  {"invalid", "object", "empty_list", "list_of_string", "list_no_text", "list_null_text"}

Responses ==
  {[raises |-> e, status |-> 0, json |-> "invalid", text |-> ""] : e \in {"Timeout", "ConnectionError"}}
  \cup {[raises |-> "", status |-> c, json |-> "object", text |-> ""] : c \in {404, 503}}
  \cup {[raises |-> "", status |-> 200, json |-> j, text |-> ""] : j \in JsonShapes}
  \cup {[raises |-> "", status |-> 200, json |-> "list_text", text |-> t] : t \in GeneratedTexts}

\* a slip: "except requests.Timeout: continue"
CaughtTimeoutOnly(exception) == exception = "Timeout"

\* "except Exception: continue" catches every exception the body can raise
Caught(exception) == TRUE

Usable(sql) == [outcome |-> "usable", sql |-> sql, exception |-> ""]

Unusable == [outcome |-> "failed", sql |-> "", exception |-> ""]

Throws(exception) == [outcome |-> "raised", sql |-> "", exception |-> exception]

\* a slip: a text of exactly 10 characters is accepted too
AcceptTextOfTen(generated_text) ==
  LET sql_query == clean_sql_output(generated_text)
  IN IF sql_query # "" /\ Len(Strip(sql_query)) >= 10 THEN Usable(sql_query) ELSE Unusable

\* lines 661-664: sanitize, then accept a text longer than 10 characters
AcceptText(generated_text) ==
  LET sql_query == clean_sql_output(generated_text)
  IN IF sql_query # "" /\ Len(Strip(sql_query)) > 10 THEN Usable(sql_query) ELSE Unusable

\* the body of the try block (lines 650-664) for one response
HandleResponse(r) ==
  IF r.raises # "" THEN Throws(r.raises)
  ELSE IF r.status # 200 THEN Unusable
  ELSE IF r.json = "invalid" THEN Throws("JSONDecodeError")
  ELSE IF r.json \in {"object", "empty_list"} THEN Unusable
  ELSE IF r.json = "list_of_string" THEN Throws("AttributeError")
  ELSE IF r.json = "list_null_text" THEN Throws("AttributeError")
  ELSE IF r.json = "list_no_text" THEN AcceptText("")
  ELSE AcceptText(r.text)

(***************************************************************************)
(* generate_sql (app.py 546-566).  The value carries, besides the pair     *)
(* returned, the tiers the call ran and the backend requests it issued.    *)
(***************************************************************************)
\* a slip: the remote tier is tried whenever the patterns give no plain SQL
generate_sql_asking_ai(question, schema_info) ==
  LET r == generate_sql_rule_based(question, schema_info)
  IN IF r.ok /\ ~StartsWith(r.sql, "--")
     THEN [out |-> Returned(r.sql, TRUE), tiers |-> <<"rule_based">>, requests |-> <<>>]
     ELSE [out |-> Returned(r.sql, TRUE), tiers |-> <<"rule_based", "remote">>,
           requests |-> <<[model |-> models[1], outcome |-> "failed"]>>]

\* a slip: every text that starts with "--" is refused by the second test
generate_sql_rejecting_comments(question, schema_info) ==
  LET r == generate_sql_rule_based(question, schema_info)
      t == generate_helpful_template(question, schema_info)
  IN IF r.ok /\ ~StartsWith(r.sql, "--")
     THEN [out |-> Returned(r.sql, TRUE), tiers |-> <<"rule_based">>, requests |-> <<>>]
     ELSE IF r.sql # "" /\ ~StartsWith(r.sql, "--")
     THEN [out |-> Returned(r.sql, TRUE), tiers |-> <<"rule_based">>, requests |-> <<>>]
     ELSE [out |-> t, tiers |-> <<"rule_based", "template">>, requests |-> <<>>]

generate_sql(question, schema_info) ==
  LET r == generate_sql_rule_based(question, schema_info)
      t == generate_helpful_template(question, schema_info)
  IN IF r.ok /\ ~StartsWith(r.sql, "--")
     THEN [out |-> Returned(r.sql, TRUE), tiers |-> <<"rule_based">>, requests |-> <<>>]
     ELSE IF r.sql # "" /\ ~StartsWith(r.sql, "-- Error")
     THEN [out |-> Returned(r.sql, TRUE), tiers |-> <<"rule_based">>, requests |-> <<>>]
     ELSE [out |-> t, tiers |-> <<"rule_based", "template">>, requests |-> <<>>]

(***************************************************************************)
(* SchemaManager (app.py 250-308): parse_schema_input and extract_from_ddl. *)
(* The two regular expressions are matched as re.search matches them: at   *)
(* the leftmost position where the pattern fits.                           *)
(***************************************************************************)
\* the grave accent that may quote a name in DDL; "~" stands for it, as in Fence
Backtick == "~"

Digits == {"0", "1", "2", "3", "4", "5", "6", "7", "8", "9"}

\* the regex class \w (ASCII)
WordChars ==
  {CharAt(UpperLetters, i) : i \in 1..26} \cup {CharAt(LowerLetters, i) : i \in 1..26}
  \cup Digits \cup {"_"}

\* s[i] is a character of the set
IsAt(s, i, set) == i >= 1 /\ i <= Len(s) /\ CharAt(s, i) \in set

\* last position of the longest run of characters of the set that starts at
\* position i; i - 1 when s[i] is not in the set
RECURSIVE RunEnd(_, _, _)
RunEnd(s, i, set) == IF IsAt(s, i, set) THEN RunEnd(s, i + 1, set) ELSE i - 1

NoMatch == [matched |-> FALSE, name |-> "", type |-> ""]

\* CREATE TABLE\s+(?:`)?(\w+)(?:`)? with re.IGNORECASE, tried at position i
TableMatchAt(line, i) ==
  LET ws == RunEnd(line, i + 12, Whitespace)
      first == IF IsAt(line, ws + 1, {Backtick}) THEN ws + 2 ELSE ws + 1
      last == RunEnd(line, first, WordChars)
  IN IF i + 11 <= Len(line) /\ Upper(SubSeq(line, i, i + 11)) = "CREATE TABLE"
        /\ ws >= i + 12 /\ last >= first
     THEN [matched |-> TRUE, name |-> SubSeq(line, first, last), type |-> ""]
     ELSE NoMatch

\* (?:`)?(\w+)(?:`)?\s+(\w+(?:\(\d+(?:,\d+)?\))?) tried at position i
ColumnMatchAt(line, i) ==
  LET first == IF IsAt(line, i, {Backtick}) THEN i + 1 ELSE i
      last == RunEnd(line, first, WordChars)
      quote == IF IsAt(line, last + 1, {Backtick}) THEN last + 1 ELSE last
      ws == RunEnd(line, quote + 1, Whitespace)
      word == RunEnd(line, ws + 1, WordChars)
      d1 == RunEnd(line, word + 2, Digits)
      d2 == RunEnd(line, d1 + 2, Digits)
      size == IF IsAt(line, word + 1, {"("}) /\ d1 >= word + 2
              THEN IF IsAt(line, d1 + 1, {")"}) THEN d1 + 1
                   ELSE IF IsAt(line, d1 + 1, {","}) /\ d2 >= d1 + 2 /\ IsAt(line, d2 + 1, {")"})
                   THEN d2 + 1
                   ELSE word
              ELSE word
  IN IF last >= first /\ ws >= quote + 1 /\ word >= ws + 1
     THEN [matched |-> TRUE, name |-> SubSeq(line, first, last),
           type |-> SubSeq(line, ws + 1, size)]
     ELSE NoMatch

\* the least position of the set, 0 when it is empty
Leftmost(hits) == IF hits = {} THEN 0 ELSE CHOOSE i \in hits : \A j \in hits : i <= j

\* re.search of the table pattern: the match at the leftmost position that has one
SearchTable(line) ==
  LET i == Leftmost({i \in 1..Len(line) : TableMatchAt(line, i).matched})
  IN IF i = 0 THEN NoMatch ELSE TableMatchAt(line, i)

\* re.search of the column pattern
SearchColumn(line) ==
  LET i == Leftmost({i \in 1..Len(line) : ColumnMatchAt(line, i).matched})
  IN IF i = 0 THEN NoMatch ELSE ColumnMatchAt(line, i)

\* the constraints in the order PRIMARY KEY, NOT NULL, FOREIGN KEY
ConstraintsPrimaryKeyFirst(line) ==
  LET up == Upper(line)
  IN (IF Contains(up, "PRIMARY KEY") THEN <<"PRIMARY KEY">> ELSE <<>>)
     \o (IF Contains(up, "NOT NULL") THEN <<"NOT NULL">> ELSE <<>>)
     \o (IF Contains(up, "FOREIGN KEY") THEN <<"FOREIGN KEY">> ELSE <<>>)

\* the constraints named on the line, in the order the code looks for them
Constraints(line) ==
  LET up == Upper(line)
  IN (IF Contains(up, "NOT NULL") THEN <<"NOT NULL">> ELSE <<>>)
     \o (IF Contains(up, "PRIMARY KEY") THEN <<"PRIMARY KEY">> ELSE <<>>)
     \o (IF Contains(up, "FOREIGN KEY") THEN <<"FOREIGN KEY">> ELSE <<>>)

\* a slip: a line is read as a column even before any CREATE TABLE line
ColumnLineAnywhere(open, line) == line # "" /\ ~StartsWith(line, "--")

\* elif current_table and line and not line.startswith('--')
ColumnLine(open, line) == open /\ line # "" /\ ~StartsWith(line, "--")

\* a slip: no line is skipped for its parentheses
SkipsNoLine(line) == FALSE

\* if '(' in line or ')' in line: continue
SkipsLine(line) == Contains(line, "(") \/ Contains(line, ")")

\* the body of "for line in lines" of extract_from_ddl; st holds the list
\* schema_info and current_table (open = FALSE stands for None)
DdlLine(st, raw) ==
  LET line == Strip(raw)
  IN IF StartsWith(Upper(line), "CREATE TABLE")
     THEN LET table_match == SearchTable(line)
          IN IF table_match.matched
             THEN [schema_info |-> Append(st.schema_info, "\nTable: " \o table_match.name),
                   open |-> TRUE, current_table |-> table_match.name]
             ELSE st
     ELSE IF ColumnLine(st.open, line)
     THEN IF SkipsLine(line) THEN st
          ELSE LET col_match == SearchColumn(line)
                   constraints == Constraints(line)
                   constraint_str == IF constraints # <<>>
                                     THEN " (" \o Join(constraints, ", ") \o ")" ELSE ""
               IN IF col_match.matched
                  THEN [st EXCEPT !.schema_info =
                          Append(st.schema_info,
                                 "  - " \o col_match.name \o ": " \o col_match.type \o constraint_str)]
                  ELSE st
     ELSE st

RECURSIVE DdlLines(_, _)
DdlLines(st, lines) ==
  IF lines = <<>> THEN st ELSE DdlLines(DdlLine(st, Head(lines)), Tail(lines))

extract_from_ddl(ddl_text) ==
  LET st == DdlLines([schema_info |-> <<>>, open |-> FALSE, current_table |-> ""],
                     Split(ddl_text, "\n"))
  IN IF st.schema_info # <<>> THEN Join(st.schema_info, "\n") ELSE ddl_text

parse_schema_input(schema_text) ==
  IF Strip(schema_text) = "" THEN ""
  ELSE LET cleaned_schema == Strip(schema_text)
       IN IF \E keyword \in {"CREATE TABLE", "TABLE", "COLUMN"} :
                Contains(Upper(cleaned_schema), keyword)
          THEN extract_from_ddl(cleaned_schema)
          ELSE cleaned_schema

(***************************************************************************)
(* ImageSchemaExtractor (app.py 102-249).  No vision model is called: for  *)
(* an image that can be encoded extract_with_blip returns the fixed text   *)
(* of analyze_image_content, which format_extracted_schema then rewrites   *)
(* line by line.                                                           *)
(***************************************************************************)
\* analyze_image_content (167-198): the text does not depend on the image
analyze_image_content ==
  Join(<<"Based on your uploaded image, here's a template schema you can customize:",
         "",
         "Table: users",
         "  - id: INTEGER (PRIMARY KEY)",
         "  - username: VARCHAR(50) (NOT NULL)",
         "  - email: VARCHAR(100) (UNIQUE)",
         "  - created_at: TIMESTAMP",
         "  - updated_at: TIMESTAMP",
         "",
         "Table: products",
         "  - id: INTEGER (PRIMARY KEY)",
         "  - name: VARCHAR(200) (NOT NULL)",
         "  - description: TEXT",
         "  - price: DECIMAL(10,2)",
         "  - category_id: INTEGER (FOREIGN KEY)",
         "  - stock_quantity: INTEGER",
         "  - created_at: TIMESTAMP",
         "",
         "Table: orders",
         "  - id: INTEGER (PRIMARY KEY)",
         "  - user_id: INTEGER (FOREIGN KEY)",
         "  - total_amount: DECIMAL(10,2)",
         "  - status: VARCHAR(20)",
         "  - order_date: TIMESTAMP",
         "",
         "Please modify this template to match your actual database structure from the image.">>,
       "\n")

\* generate_schema_template (226-249)
generate_schema_template ==
  Join(<<"# Schema extracted from your image",
         "# Please review and modify to match your actual database structure",
         "",
         "Table: table_name_1",
         "  - id: INTEGER (PRIMARY KEY)",
         "  - column_1: VARCHAR(100) (NOT NULL)",
         "  - column_2: INTEGER",
         "  - column_3: TEXT",
         "  - created_at: TIMESTAMP",
         "",
         "Table: table_name_2",
         "  - id: INTEGER (PRIMARY KEY)",
         "  - foreign_key_id: INTEGER (FOREIGN KEY)",
         "  - column_1: VARCHAR(50)",
         "  - column_2: DECIMAL(10,2)",
         "  - status: VARCHAR(20)",
         "",
         "# Instructions:",
         "# 1. Replace 'table_name_1', 'table_name_2' with your actual table names",
         "# 2. Update column names and data types to match your database",
         "# 3. Add or remove columns as needed",
         "# 4. Specify relationships between tables">>,
       "\n")

\* the body of "for line in lines" of format_extracted_schema (205-222): the
\* lines appended to formatted_lines for one line of the raw text
FormatLine(raw) ==
  LET line == Strip(raw)
      low == Lower(line)
  IN IF line = "" THEN <<>>
     ELSE IF \E keyword \in {"table", "create", "entity"} : Contains(low, keyword)
     THEN IF ~StartsWith(line, "Table:") THEN <<"Table: " \o line>> ELSE <<line>>
     ELSE IF Contains(line, ":") \/ Contains(low, "varchar") \/ Contains(low, "integer")
     THEN IF ~StartsWith(line, "  -") THEN <<"  - " \o line>> ELSE <<line>>
     ELSE <<line>>

RECURSIVE FormatLines(_)
FormatLines(lines) ==
  IF lines = <<>> THEN <<>> ELSE FormatLine(Head(lines)) \o FormatLines(Tail(lines))

\* format_extracted_schema (200-224)
format_extracted_schema(raw_text) == Join(FormatLines(Split(raw_text, "\n")), "\n")

\* an uploaded image: one that encode_image can encode, or one on which it raises
Images == {"readable", "unreadable"}

\* extract_with_blip (143-165): "" when encoding the image raised
extract_with_blip(image) == IF image = "readable" THEN analyze_image_content ELSE ""

\* extract_schema_from_image (129-141)
extract_schema_from_image(image) ==
  LET schema_text == extract_with_blip(image)
  IN IF schema_text # "" /\ Len(schema_text) > 50
     THEN Returned(format_extracted_schema(schema_text), TRUE)
     ELSE Returned(generate_schema_template, TRUE)

(***************************************************************************)
(* Inputs.  A question is a few phrases joined by blanks, a schema text a  *)
(* few fragments joined by newlines.                                       *)
(***************************************************************************)
MaxQuestionParts == 2

MaxSchemaParts == 2

QuestionParts ==
  <<"List engineering staff", "What is the average salary?", "highest price", "count",
    "show", "sales by employee", "Products in stock below 50", "electronics",
    "hired after 2022">>

SchemaParts ==
  <<"Table: employees\n  - department: VARCHAR(50)",
    "Table: staff\n  - Salary: INTEGER\n  - hire_date: DATE",
    "Table: employees\n  - salary: DECIMAL(10,2)\n  - department: VARCHAR(50)",
    "Table: sales\n  - total_amount: REAL",
    "Table: Products\n  - price: REAL\n  - stock_quantity: INTEGER\n  - category: TEXT",
    "Table: Teams\n  - Department: TEXT",
    "# notes\n  - department_id: INTEGER (FOREIGN KEY)",
    "Table:">>

\* the strictly increasing index sequences of length n over 1..m
Increasing(n, m) ==
  {f \in [1..n -> 1..m] : \A i \in 1..(n - 1) : f[i] < f[i + 1]}

Questions ==
  UNION {{Join([i \in 1..n |-> QuestionParts[f[i]]], " ") : f \in Increasing(n, Len(QuestionParts))}
         : n \in 0..MaxQuestionParts}

\* the index sequences of length n over 1..m that repeat no index
Injective(n, m) ==
  {f \in [1..n -> 1..m] : \A i, j \in 1..n : i # j => f[i] # f[j]}

Schemas ==
  UNION {{Join([i \in 1..n |-> SchemaParts[f[i]]], "\n") : f \in Injective(n, Len(SchemaParts))}
         : n \in 0..MaxSchemaParts}

(***************************************************************************)
(* State.                                                                  *)
(***************************************************************************)
VARIABLES
  question,      \* the question argument of the call
  schema_info,   \* the schema_info argument of the call
  call,          \* the method called, "" before the call
  pc,            \* "idle", "posting" (inside the loop of try_ai_generation), "done"
  model_index,   \* position of the loop of try_ai_generation in self.models
  requests,      \* the backend requests issued so far, each with its outcome
  response,      \* what the latest request came back with
  tiers,         \* the tiers the call has run
  result,        \* what the call returned (or that it raised)
  raw_output,    \* the raw_output argument of clean_sql_output
  schema_text,   \* the schema_text argument of parse_schema_input
  converter,     \* the fields of the one NLToSQLConverter instance
  threads,       \* the callers that share the instance, each with its locals
  raw_text,      \* the raw_text argument of format_extracted_schema
  query_history, \* st.session_state.query_history of the page
  clock,         \* the runs of main so far, the time of the page
  mode           \* the mode chosen on the page, "" off the page

vars ==
  <<question, schema_info, call, pc, model_index, requests, response, tiers, result,
    raw_output, schema_text, converter, threads, raw_text, query_history, clock, mode>>

\* what a call of one of the translation tiers or of the remote tier leaves alone
untouched == <<raw_output, schema_text, converter, threads, raw_text, query_history, clock, mode>>

\* the page before its first run: no text extracted, no query_history key
NoSession ==
  /\ raw_text = ""
  /\ query_history = <<>>
  /\ clock = 0
  /\ mode = ""

\* NLToSQLConverter.__init__ (411-428): headers is empty without a token
NewConverter(hf_token) ==
  [models |-> models,
   current_model_index |-> 0,
   current_model |-> models[1],
   headers |-> IF hf_token # "" THEN "Authorization: Bearer " \o hf_token ELSE ""]

\* no caller besides the one of question/schema_info
NoThreads == <<>>

\* the state around a single caller
SingleCaller ==
  /\ raw_output = ""
  /\ schema_text = ""
  /\ converter = NewConverter("")
  /\ threads = NoThreads
  /\ NoSession

NoResult == [sql |-> "", ok |-> FALSE, raised |-> FALSE]

NoResponse == [raises |-> "", status |-> 0, json |-> "none", text |-> ""]

Init ==
  /\ question \in Questions
  /\ schema_info \in Schemas
  /\ call = ""
  /\ pc = "idle"
  /\ model_index = 0
  /\ requests = <<>>
  /\ response = NoResponse
  /\ tiers = <<>>
  /\ result = NoResult
  /\ SingleCaller

CallGenerateSqlRuleBased ==
  /\ pc = "idle"
  /\ call' = "generate_sql_rule_based"
  /\ \E r \in {generate_sql_rule_based(question, schema_info)} : result' = r
  /\ tiers' = <<"rule_based">>
  /\ pc' = "done"
  /\ UNCHANGED <<question, schema_info, model_index, requests, response>>
  /\ UNCHANGED untouched

CallGenerateSql ==
  /\ pc = "idle"
  /\ call' = "generate_sql"
  /\ \E g \in {generate_sql(question, schema_info)} :
        /\ result' = g.out
        /\ tiers' = g.tiers
        /\ requests' = requests \o g.requests
  /\ pc' = "done"
  /\ UNCHANGED <<question, schema_info, model_index, response>>
  /\ UNCHANGED untouched

CallGenerateHelpfulTemplate ==
  /\ pc = "idle"
  /\ call' = "generate_helpful_template"
  /\ \E r \in {generate_helpful_template(question, schema_info)} : result' = r
  /\ tiers' = <<"template">>
  /\ pc' = "done"
  /\ UNCHANGED <<question, schema_info, model_index, requests, response>>
  /\ UNCHANGED untouched

\* try_ai_generation is entered: the loop stands before the first candidate
CallTryAiGeneration ==
  /\ pc = "idle"
  /\ call' = "try_ai_generation"
  /\ pc' = "posting"
  /\ model_index' = 1
  /\ tiers' = <<"remote">>
  /\ UNCHANGED <<question, schema_info, requests, response, result>>
  /\ UNCHANGED untouched

\* one pass of the loop: post to models[model_index], handle the response;
\* after the last candidate has failed the function returns (line 669)
Post(r) ==
  /\ pc = "posting"
  /\ model_index <= Len(models)
  /\ response' = r
  /\ \E h \in {HandleResponse(r)} :
        /\ requests' = Append(requests,
                              [model |-> models[model_index],
                               outcome |-> IF h.outcome = "usable" THEN "usable" ELSE "failed"])
        /\ IF h.outcome = "usable"
           THEN /\ result' = Returned(h.sql, TRUE)
                /\ pc' = "done"
                /\ UNCHANGED model_index
           ELSE IF h.outcome = "raised" /\ ~Caught(h.exception)
           THEN /\ result' = Raised
                /\ pc' = "done"
                /\ UNCHANGED model_index
           ELSE IF model_index = Len(models)
           THEN /\ result' = Returned("AI models unavailable. Please try again later.", FALSE)
                /\ pc' = "done"
                /\ model_index' = model_index + 1
           ELSE /\ model_index' = model_index + 1
                /\ UNCHANGED <<pc, result>>
  /\ UNCHANGED <<question, schema_info, call, tiers>>
  /\ UNCHANGED untouched

PostAny == \E r \in Responses : Post(r)

\* the calls of the translation tiers
Next ==
  \/ CallGenerateSqlRuleBased
  \/ CallGenerateSql
  \/ CallGenerateHelpfulTemplate

Spec == Init /\ [][Next]_vars

(***************************************************************************)
(* The converter with its remote tier: every method may be called, on a    *)
(* few question and schema texts (the remote tier only embeds them in the  *)
(* prompt it posts).                                                       *)
(***************************************************************************)
RemoteQuestions == {"", QuestionParts[1], QuestionParts[4]}

RemoteSchemas == {"", SchemaParts[1], SchemaParts[7], SchemaParts[8]}

InitRemote ==
  /\ question \in RemoteQuestions
  /\ schema_info \in RemoteSchemas
  /\ call = ""
  /\ pc = "idle"
  /\ model_index = 0
  /\ requests = <<>>
  /\ response = NoResponse
  /\ tiers = <<>>
  /\ result = NoResult
  /\ SingleCaller

NextRemote ==
  \/ CallGenerateSqlRuleBased
  \/ CallGenerateSql
  \/ CallGenerateHelpfulTemplate
  \/ CallTryAiGeneration
  \/ PostAny

SpecRemote == InitRemote /\ [][NextRemote]_vars

(***************************************************************************)
(* The text functions called on their own: clean_sql_output,               *)
(* parse_schema_input and generate_helpful_template, each on texts built   *)
(* from a few fragments.                                                   *)
(***************************************************************************)
MaxDdlLines == 2

MaxTemplateWords == 2

\* raw model output: opening fence, prefix, statement, closing fence
OpeningFences == <<"", Fence \o "sql\n", "  " \o Fence \o "sql">>

Prefixes == <<"", "SQL: ", "Query:", "Answer:\n ">>

Statements ==
  <<"SELECT * FROM t;",
    "select a,\n   b from t",
    "SELECT name FROM t WHERE created > 5",
    "WITH a AS (SELECT 1) SELECT * FROM a",
    "INSERT INTO t SELECT * FROM u",
    "UPDATE t SET x = 1",
    "Delete from t where id in (select id from u)",
    "CREATE TABLE t (id INTEGER)">>

ClosingFences == <<"", "\n" \o Fence, "\n" \o Fence \o "\n ">>

\* a fenced, prefixed statement, with the statement it was built around
FencedOutputs ==
  {[raw |-> OpeningFences[o] \o Prefixes[p] \o Statements[s] \o ClosingFences[c],
    statement |-> Statements[s]] :
     o \in DOMAIN OpeningFences, p \in DOMAIN Prefixes,
     s \in DOMAIN Statements, c \in DOMAIN ClosingFences}

\* model output that talks around the statement, or holds none
ChattyOutputs ==
  {"Here is the query: SELECT id FROM t",
   "To insert or update rows first select them: SELECT 1",
   "Use delete with care. Select * from t",
   "I cannot help with that.",
   "  no   keyword\n here ",
   "Answer: SQL: no idea",
   "SQL: SQL: no idea",
   "Query: Answer: SQL: SELECT 1",
   ""}

RawOutputs == {x.raw : x \in FencedOutputs} \cup ChattyOutputs

\* the lines between "CREATE TABLE t (" and ");": kind tells whether the line
\* is a plain "<name> <type>" line, holds a parenthesis, or is a comment
DdlLineParts ==
  <<[text |-> "  id INTEGER PRIMARY KEY,", kind |-> "plain", column |-> "  - id: INTEGER (PRIMARY KEY)"],
    [text |-> "  name VARCHAR(50),", kind |-> "paren", column |-> ""],
    [text |-> "  email TEXT NOT NULL,", kind |-> "plain", column |-> "  - email: TEXT (NOT NULL)"],
    [text |-> "  -- contact data", kind |-> "comment", column |-> ""],
    [text |-> "  " \o Backtick \o "qty" \o Backtick \o " INT,", kind |-> "plain", column |-> "  - qty: INT"],
    [text |-> "  price DECIMAL(10,2) NOT NULL", kind |-> "paren", column |-> ""]>>

\* the sequences of at most MaxDdlLines different lines
DdlBodies ==
  UNION {Injective(n, Len(DdlLineParts)) : n \in 0..MaxDdlLines}

DdlText(body) ==
  Join(<<"CREATE TABLE t (">> \o [i \in DOMAIN body |-> DdlLineParts[body[i]].text] \o <<");">>, "\n")

OneLineDdl == "CREATE TABLE t (id INTEGER, name VARCHAR(50));"

DdlTexts ==
  {DdlText(body) : body \in DdlBodies}
  \cup {OneLineDdl,
        "create table " \o Backtick \o "users" \o Backtick \o "\nid int\n\nCREATE TABLE orders\n  total REAL NOT NULL",
        "id INTEGER\nCREATE TABLE"}

\* the double quote that may stand around a name in DDL; "^" stands for it, a
\* character that like it is no word character, no grave accent, no
\* parenthesis and no whitespace
DoubleQuote == "^"

\* how the name after CREATE TABLE is written
IdentifierForms == {"bare", "backtick", "double"}

CreateKeywords == {"CREATE TABLE", "create table", "Create Table"}

Quoted(name, form) ==
  CASE form = "backtick" -> Backtick \o name \o Backtick
    [] form = "double" -> DoubleQuote \o name \o DoubleQuote
    [] OTHER -> name

\* two CREATE TABLE statements of one column each
TwoTableDdl(keyword, first, second) ==
  keyword \o " " \o Quoted("users", first) \o " (\n  id INTEGER\n);\n"
  \o keyword \o " " \o Quoted("orders", second) \o " (\n  total REAL\n);"

TwoTableDdls ==
  {TwoTableDdl(keyword, first, second) :
     keyword \in CreateKeywords, first \in IdentifierForms, second \in IdentifierForms}

MaxConstraints == 2

\* what may follow "<name> <type>" on a column line of DDL
ConstraintPhrases == <<"NOT NULL", "PRIMARY KEY", "FOREIGN KEY", "UNIQUE", "not null", "DEFAULT 0">>

ConstraintBodies == UNION {Injective(n, Len(ConstraintPhrases)) : n \in 0..MaxConstraints}

\* one table with the one column code, followed by the phrases of the body
ConstraintDdl(body) ==
  "CREATE TABLE t (\n  code INT"
  \o Join([i \in DOMAIN body |-> " " \o ConstraintPhrases[body[i]]], "") \o "\n);"

ConstraintDdls == {ConstraintDdl(body) : body \in ConstraintBodies}

\* schema texts in the simple notation, with blank space around them
SimpleSchemas ==
  {SchemaParts[1], SchemaParts[2], SchemaParts[4], SchemaParts[5],
   SchemaParts[1] \o "\n" \o SchemaParts[4],
   SchemaParts[6] \o "\n\n" \o SchemaParts[3],
   "Table: staff\n  - hire_date: DATE NOT NULL\n  - id: INTEGER PRIMARY KEY",
   "Table: orders\n  - total amount: REAL",
   "Table: columns\n  - created table: TEXT"}

Paddings == {"", "  \n", "\n\n  "}

SimpleTexts == {pre \o s \o post : pre \in Paddings, s \in SimpleSchemas, post \in Paddings}

SchemaTexts ==
  DdlTexts \cup TwoTableDdls \cup ConstraintDdls \cup SimpleTexts
  \cup {"", " \n ", SchemaParts[7], "name TEXT\nqty INT"}

\* questions for the template: at most MaxTemplateWords of these, in any order
TemplateWords ==
  <<"count", "how many", "average", "avg", "mean", "top", "highest", "Best", "maximum",
    "Show", "list", "display", "get", "employees">>

TemplateQuestions ==
  UNION {{Join([i \in 1..n |-> TemplateWords[f[i]]], " ") : f \in Injective(n, Len(TemplateWords))}
         : n \in 0..MaxTemplateWords}

TemplateSchemas ==
  {"", SchemaParts[1], SchemaParts[4] \o "\n" \o SchemaParts[1],
   SchemaParts[6] \o "\n" \o SchemaParts[5] \o "\n" \o SchemaParts[2]}

MaxParserLines == 2

\* lines under a "Table:" line of a schema text in the simple notation, each
\* with the column the notation gives it ("" for none): a dash followed by
\* no, one or several whitespace characters and name: type, and lines of
\* neither shape
ParserLineParts ==
  <<[text |-> "  - name: TEXT", column |-> "name"],
    [text |-> "-department: VARCHAR(50)", column |-> "department"],
    [text |-> "-\tsalary: INTEGER", column |-> "salary"],
    [text |-> "  -   price : REAL", column |-> "price"],
    [text |-> "hire_date DATE", column |-> ""],
    [text |-> "", column |-> ""],
    [text |-> "  - notes", column |-> ""]>>

\* what stands before the "Table:" line: nothing, or a column line
ParserPreludes == {"", "  - id: INTEGER\n"}

ParserBodies == UNION {Injective(n, Len(ParserLineParts)) : n \in 0..MaxParserLines}

ParserText(pre, body) ==
  pre \o "Table: staff" \o Join([i \in DOMAIN body |-> "\n" \o ParserLineParts[body[i]].text], "")

ParserTexts == {ParserText(pre, body) : pre \in ParserPreludes, body \in ParserBodies}

\* schema texts whose one column is spelled with capital letters
CasedSchemas ==
  {"Table: Teams\n  - Department: TEXT",
   "Table: Depts\n  - DEPARTMENT: TEXT",
   "Table: staff\n  - Salary: INTEGER",
   "Table: Items\n  - Price: REAL"}

\* a question for each of rules 1, 2/2b and 3
CasedQuestions == {QuestionParts[1], QuestionParts[2], QuestionParts[3]}

MaxExtractedLines == 2

\* lines of a text handed to format_extracted_schema; simple tells whether the
\* line is already in the simple notation
ExtractedLineParts ==
  <<[text |-> "Table: users", simple |-> TRUE],
    [text |-> "  - id: INTEGER (PRIMARY KEY)", simple |-> TRUE],
    [text |-> "  - created_at: TIMESTAMP", simple |-> TRUE],
    [text |-> "  - name: TEXT", simple |-> TRUE],
    [text |-> "Table: Entity", simple |-> TRUE],
    [text |-> "orders table", simple |-> FALSE],
    [text |-> "email varchar", simple |-> FALSE],
    [text |-> "price: REAL", simple |-> FALSE],
    [text |-> "two tables found", simple |-> FALSE],
    [text |-> "", simple |-> FALSE]>>

ExtractedBodies == UNION {Injective(n, Len(ExtractedLineParts)) : n \in 0..MaxExtractedLines}

ExtractedText(body) == Join([i \in DOMAIN body |-> ExtractedLineParts[body[i]].text], "\n")

ExtractedTexts == {ExtractedText(body) : body \in ExtractedBodies} \cup {analyze_image_content}

\* the value of a method that returns a text only
Text(sql) == [sql |-> sql, ok |-> FALSE, raised |-> FALSE]

InitText ==
  /\ \/ /\ question \in TemplateQuestions
        /\ schema_info \in TemplateSchemas
        /\ raw_output = ""
        /\ schema_text = ""
        /\ raw_text = ""
     \/ /\ question = ""
        /\ schema_info = ""
        /\ raw_output \in RawOutputs
        /\ schema_text = ""
        /\ raw_text = ""
     \/ /\ question = ""
        /\ schema_info = ""
        /\ raw_output = ""
        /\ schema_text \in SchemaTexts
        /\ raw_text = ""
     \/ /\ question = QuestionParts[1]
        /\ schema_info \in ParserTexts
        /\ raw_output = ""
        /\ schema_text = ""
        /\ raw_text = ""
     \/ /\ question \in CasedQuestions
        /\ schema_info \in CasedSchemas
        /\ raw_output = ""
        /\ schema_text = ""
        /\ raw_text = ""
     \/ /\ question = ""
        /\ schema_info = ""
        /\ raw_output = ""
        /\ schema_text = ""
        /\ raw_text \in ExtractedTexts
  /\ call = ""
  /\ pc = "idle"
  /\ model_index = 0
  /\ requests = <<>>
  /\ response = NoResponse
  /\ tiers = <<>>
  /\ result = NoResult
  /\ converter = NewConverter("")
  /\ threads = NoThreads
  /\ query_history = <<>>
  /\ clock = 0
  /\ mode = ""

CallCleanSqlOutput ==
  /\ pc = "idle"
  /\ call' = "clean_sql_output"
  /\ \E sql \in {clean_sql_output(raw_output)} : result' = Text(sql)
  /\ pc' = "done"
  /\ UNCHANGED <<question, schema_info, model_index, requests, response, tiers>>
  /\ UNCHANGED untouched

CallParseSchemaInput ==
  /\ pc = "idle"
  /\ call' = "parse_schema_input"
  /\ \E text \in {parse_schema_input(schema_text)} : result' = Text(text)
  /\ pc' = "done"
  /\ UNCHANGED <<question, schema_info, model_index, requests, response, tiers>>
  /\ UNCHANGED untouched

CallFormatExtractedSchema ==
  /\ pc = "idle"
  /\ call' = "format_extracted_schema"
  /\ \E text \in {format_extracted_schema(raw_text)} : result' = Text(text)
  /\ pc' = "done"
  /\ UNCHANGED <<question, schema_info, model_index, requests, response, tiers>>
  /\ UNCHANGED untouched

\* extract_schema_from_image on an uploaded image; raw_text keeps the text that
\* extract_with_blip gave
CallExtractSchemaFromImage ==
  /\ pc = "idle"
  /\ call' = "extract_schema_from_image"
  /\ \E image \in Images :
       /\ raw_text' = extract_with_blip(image)
       /\ \E r \in {extract_schema_from_image(image)} : result' = r
  /\ pc' = "done"
  /\ UNCHANGED <<question, schema_info, model_index, requests, response, tiers>>
  /\ UNCHANGED <<raw_output, schema_text, converter, threads, query_history, clock, mode>>

NextText ==
  \/ CallCleanSqlOutput
  \/ CallParseSchemaInput
  \/ CallGenerateHelpfulTemplate
  \/ CallGenerateSqlRuleBased
  \/ CallFormatExtractedSchema
  \/ CallExtractSchemaFromImage

SpecText == InitText /\ [][NextText]_vars

(***************************************************************************)
(* Concurrent callers of the one converter that initialize_components      *)
(* caches (app.py 858-865).  Each caller runs one method with its own      *)
(* arguments and, for try_ai_generation, its own backend responses.  The   *)
(* methods that touch nothing but their arguments and locals run in one    *)
(* step; try_ai_generation, which waits for a backend in every pass of its *)
(* loop, runs one pass per step, so that passes of two callers interleave. *)
(***************************************************************************)
Callers == {"a", "b"}

Tokens == {"", "hf_token"}

ConcurrentQuestions == {QuestionParts[4]}

ConcurrentSchemas == {"", SchemaParts[1]}

ConcurrentResponses ==
  {[raises |-> "Timeout", status |-> 0, json |-> "invalid", text |-> ""],
   [raises |-> "", status |-> 200, json |-> "list_text", text |-> "Answer: SELECT id FROM employees"]}

ServiceUnavailable == [raises |-> "", status |-> 503, json |-> "object", text |-> ""]

\* the responses the candidates give one caller, one per candidate
ResponsePatterns ==
  [DOMAIN models -> ConcurrentResponses] \cup {[i \in DOMAIN models |-> ServiceUnavailable]}

\* a caller before its call: the method, its arguments, the responses the
\* backends will give it, and its locals
NewThread(method, q, s, raw, responses) ==
  [method |-> method, question |-> q, schema_info |-> s, raw_output |-> raw,
   responses |-> responses, pc |-> "idle", model_index |-> 0, result |-> NoResult]

NoResponses == [i \in DOMAIN models |-> NoResponse]

ThreadSetups ==
  {NewThread(m, q, s, "", NoResponses) :
     m \in {"generate_sql_rule_based", "generate_helpful_template"},
     q \in ConcurrentQuestions, s \in ConcurrentSchemas}
  \cup {NewThread("clean_sql_output", "", "", raw, NoResponses) :
          raw \in {"SQL: SELECT 1", "Use delete with care. Select * from t"}}
  \cup {NewThread("try_ai_generation", QuestionParts[1], SchemaParts[1], "", responses) :
          responses \in ResponsePatterns}

\* what a method returns from its arguments alone
PureResult(th) ==
  CASE th.method = "generate_sql_rule_based" -> generate_sql_rule_based(th.question, th.schema_info)
    [] th.method = "generate_helpful_template" -> generate_helpful_template(th.question, th.schema_info)
    [] OTHER -> Text(clean_sql_output(th.raw_output))

\* a slip: the loop keeps its position in self.current_model_index
LoopPassSharedIndex(th, conv) ==
  LET i == conv.current_model_index + 1
      next == [conv EXCEPT !.current_model_index = i]
  IN IF i > Len(conv.models)
     THEN [thread |-> [th EXCEPT !.pc = "done",
                                 !.result = Returned("AI models unavailable. Please try again later.", FALSE)],
           converter |-> conv]
     ELSE LET h == HandleResponse(th.responses[i])
          IN IF h.outcome = "usable"
             THEN [thread |-> [th EXCEPT !.pc = "done", !.result = Returned(h.sql, TRUE)],
                   converter |-> next]
             ELSE IF i = Len(conv.models)
             THEN [thread |-> [th EXCEPT !.pc = "done",
                                         !.result = Returned("AI models unavailable. Please try again later.", FALSE)],
                   converter |-> next]
             ELSE [thread |-> th, converter |-> next]

\* one pass of "for model in self.models" (635-667) of caller th on the
\* converter conv: the caller's locals and the converter's fields after it
LoopPass(th, conv) ==
  LET i == th.model_index
      h == HandleResponse(th.responses[i])
  IN IF h.outcome = "usable"
     THEN [thread |-> [th EXCEPT !.pc = "done", !.result = Returned(h.sql, TRUE)],
           converter |-> conv]
     ELSE IF h.outcome = "raised" /\ ~Caught(h.exception)
     THEN [thread |-> [th EXCEPT !.pc = "done", !.result = Raised], converter |-> conv]
     ELSE IF i = Len(conv.models)
     THEN [thread |-> [th EXCEPT !.pc = "done", !.model_index = i + 1,
                                 !.result = Returned("AI models unavailable. Please try again later.", FALSE)],
           converter |-> conv]
     ELSE [thread |-> [th EXCEPT !.model_index = i + 1], converter |-> conv]

InitConcurrent ==
  /\ threads \in [Callers -> ThreadSetups]
  /\ \E hf_token \in Tokens : converter = NewConverter(hf_token)
  /\ question = ""
  /\ schema_info = ""
  /\ raw_output = ""
  /\ schema_text = ""
  /\ call = ""
  /\ pc = "idle"
  /\ model_index = 0
  /\ requests = <<>>
  /\ response = NoResponse
  /\ tiers = <<>>
  /\ result = NoResult
  /\ NoSession

alone == <<question, schema_info, call, pc, model_index, requests, response, tiers, result,
           raw_output, schema_text, raw_text, query_history, clock, mode>>

\* caller c runs a method that works on its arguments only
ThreadCall(c) ==
  /\ threads[c].pc = "idle"
  /\ threads[c].method # "try_ai_generation"
  /\ \E r \in {PureResult(threads[c])} :
       threads' = [threads EXCEPT ![c].pc = "done", ![c].result = r]
  /\ UNCHANGED converter
  /\ UNCHANGED alone

\* caller c enters try_ai_generation
ThreadEnter(c) ==
  /\ threads[c].pc = "idle"
  /\ threads[c].method = "try_ai_generation"
  /\ threads' = [threads EXCEPT ![c].pc = "posting", ![c].model_index = 1]
  /\ UNCHANGED converter
  /\ UNCHANGED alone

\* caller c gets the response to its request and finishes the pass
ThreadPost(c) ==
  /\ threads[c].pc = "posting"
  /\ \E pass \in {LoopPass(threads[c], converter)} :
       /\ threads' = [threads EXCEPT ![c] = pass.thread]
       /\ converter' = pass.converter
  /\ UNCHANGED alone

NextConcurrent ==
  \/ \E c \in Callers : ThreadCall(c)
  \/ \E c \in Callers : ThreadEnter(c)
  \/ \E c \in Callers : ThreadPost(c)

SpecConcurrent == InitConcurrent /\ [][NextConcurrent]_vars

(***************************************************************************)
(* The page (main, app.py 901-1400): every run of main reads the widgets,  *)
(* and a run with the Generate button pressed and a question that is not   *)
(* blank generates a statement and, on success, records it in              *)
(* st.session_state.query_history (1233-1262, 1372-1386).                  *)
(***************************************************************************)
\* DatabaseManager.get_schema_info (819-845) on the sample database that
\* init_sample_database creates (705-746)
get_schema_info ==
  Join(<<
         "",
         "Table: employees",
         "  - id: INTEGER (NULL)",
         "  - name: TEXT (NOT NULL)",
         "  - department: TEXT (NULL)",
         "  - salary: INTEGER (NULL)",
         "  - hire_date: DATE (NULL)",
         "  - age: INTEGER (NULL)",
         "",
         "Table: products",
         "  - id: INTEGER (NULL)",
         "  - name: TEXT (NOT NULL)",
         "  - category: TEXT (NULL)",
         "  - price: DECIMAL(10,2) (NULL)",
         "  - stock_quantity: INTEGER (NULL)",
         "  - supplier_id: INTEGER (NULL)",
         "",
         "Table: sales",
         "  - id: INTEGER (NULL)",
         "  - product_id: INTEGER (NULL)",
         "  - employee_id: INTEGER (NULL)",
         "  - quantity: INTEGER (NULL)",
         "  - sale_date: DATE (NULL)",
         "  - total_amount: DECIMAL(10,2) (NULL)">>,
       "\n")

HistoryLimit == 10

\* schema_to_use of a run (1235-1247); stopped stands for st.stop()
SchemaToUse(m, custom) ==
  IF m = "Sample Database" THEN [stopped |-> FALSE, text |-> get_schema_info]
  ELSE IF Strip(custom) = "" THEN [stopped |-> TRUE, text |-> ""]
  ELSE [stopped |-> FALSE, text |-> parse_schema_input(custom)]

\* a slip: the new entry goes to the end of the list
AddToHistoryAtEnd(history, item) ==
  LET longer == Append(history, item)
  IN SubSeq(longer, 1, IF Len(longer) > HistoryLimit THEN HistoryLimit ELSE Len(longer))

\* query_history.insert(0, history_item); query_history = query_history[:10]
AddToHistory(history, item) ==
  LET longer == <<item>> \o history
  IN SubSeq(longer, 1, IF Len(longer) > HistoryLimit THEN HistoryLimit ELSE Len(longer))

MaxRuns == 11

\* the questions typed into the text area: blank ones and one to count rows
PageQuestions == {"", "  ", QuestionParts[4]}

\* what the user has set up before asking: the mode, the schema text typed
\* or saved, and the token of the environment
PageSetups ==
  {[mode |-> "Sample Database", custom_schema |-> "", hf_token |-> ""],
   [mode |-> "Custom Schema", custom_schema |-> " \n", hf_token |-> ""],
   [mode |-> "Upload Schema Image", custom_schema |-> SchemaParts[5], hf_token |-> "hf_token"]}

InitPage ==
  /\ \E setup \in PageSetups :
       /\ mode = setup.mode
       /\ schema_text = setup.custom_schema
       /\ converter = NewConverter(setup.hf_token)
  /\ question = ""
  /\ schema_info = ""
  /\ call = ""
  /\ pc = "idle"
  /\ model_index = 0
  /\ requests = <<>>
  /\ response = NoResponse
  /\ tiers = <<>>
  /\ result = NoResult
  /\ raw_output = ""
  /\ raw_text = ""
  /\ threads = NoThreads
  /\ query_history = <<>>
  /\ clock = 0

\* one run of main with the widgets in the given state.  With "Use AI as
\* primary method" ticked the run reads converter.use_ai (1251), an attribute
\* that no code sets: the run ends in an AttributeError before the history.
Main(generate_clicked, q, use_ai_primary) ==
  /\ call' = "main"
  /\ pc' = "done"
  /\ clock' = clock + 1
  /\ question' = q
  /\ IF generate_clicked /\ Strip(q) # ""
     THEN \E s \in {SchemaToUse(mode, schema_text)} :
            IF s.stopped
            THEN /\ schema_info' = ""
                 /\ result' = NoResult
                 /\ tiers' = <<>>
                 /\ requests' = <<>>
                 /\ UNCHANGED query_history
            ELSE IF use_ai_primary
            THEN /\ schema_info' = s.text
                 /\ result' = Raised
                 /\ tiers' = <<>>
                 /\ requests' = <<>>
                 /\ UNCHANGED query_history
            ELSE \E g \in {generate_sql(q, s.text)} :
                   /\ schema_info' = s.text
                   /\ result' = g.out
                   /\ tiers' = g.tiers
                   /\ requests' = g.requests
                   /\ query_history' =
                        IF g.out.ok
                        THEN AddToHistory(query_history,
                                          [question |-> q, sql |-> g.out.sql, mode |-> mode,
                                           timestamp |-> clock + 1])
                        ELSE query_history
     ELSE /\ schema_info' = ""
          /\ result' = NoResult
          /\ tiers' = <<>>
          /\ requests' = <<>>
          /\ UNCHANGED query_history
  /\ UNCHANGED <<model_index, response, raw_output, schema_text, converter, threads, raw_text, mode>>

\* a run of the page with the widgets in any state; the checkbox of
\* use_ai_primary is shown only with a token (1027-1033)
PageRun ==
  \E generate_clicked \in BOOLEAN : \E q \in PageQuestions :
    \E use_ai_primary \in (IF converter.headers # "" THEN BOOLEAN ELSE {FALSE}) :
      Main(generate_clicked, q, use_ai_primary)

NextPage == clock < MaxRuns /\ PageRun

SpecPage == InitPage /\ [][NextPage]_vars

(***************************************************************************)
(* Entering a schema as DDL (1243-1247): the first runs of the page on a   *)
(* custom schema of several CREATE TABLE statements.                       *)
(***************************************************************************)
MaxStatements == 2

MaxEntryRuns == 1

\* CREATE TABLE statements; two of them declare users, one has no column
\* and one a name in double quotes
StatementParts ==
  <<"CREATE TABLE users (\n  id INTEGER\n);",
    "create table users (\n  email TEXT NOT NULL\n  name TEXT\n);",
    "CREATE TABLE orders (\n  total REAL\n  id INT PRIMARY KEY\n);",
    "CREATE TABLE items",
    "CREATE TABLE " \o DoubleQuote \o "notes" \o DoubleQuote \o " (\n  body TEXT\n);">>

StatementDdls ==
  UNION {{Join([i \in 1..n |-> StatementParts[f[i]]], "\n") : f \in Injective(n, Len(StatementParts))}
         : n \in 1..MaxStatements}

EntrySchemas ==
  StatementDdls \cup TwoTableDdls \cup ConstraintDdls \cup DdlTexts
  \cup {"CREATE TABLE\nid INTEGER", "Table: staff\n  - name: TEXT"}

InitEntry ==
  /\ mode \in {"Custom Schema", "Upload Schema Image"}
  /\ schema_text \in EntrySchemas
  /\ converter \in {NewConverter(""), NewConverter("hf_token")}
  /\ question = ""
  /\ schema_info = ""
  /\ call = ""
  /\ pc = "idle"
  /\ model_index = 0
  /\ requests = <<>>
  /\ response = NoResponse
  /\ tiers = <<>>
  /\ result = NoResult
  /\ raw_output = ""
  /\ raw_text = ""
  /\ threads = NoThreads
  /\ query_history = <<>>
  /\ clock = 0

NextEntry == clock < MaxEntryRuns /\ PageRun

SpecEntry == InitEntry /\ [][NextEntry]_vars

(***************************************************************************)
(* Properties.  They speak of the call that has returned (Done), of the    *)
(* model the schema text parses to, and of the rule table of the           *)
(* specification (section 4.2), restated here independently of Cascade.    *)
(***************************************************************************)
Done(method) == call = method /\ pc = "done"

\* table t of the parsed model p has a column named c (names compared lower-cased)
TableHas(p, t, c) == \E i \in DOMAIN p.columns[t] : Lower(p.columns[t][i]) = c

SomeTableHas(p, c) == \E i \in DOMAIN p.tables : TableHas(p, p.tables[i], c)

\* the first table of p, in model order, whose test holds ("" when there is none)
FirstTableWith(p, holds) ==
  LET k == FirstTable(p.tables, holds) IN IF k = 0 THEN "" ELSE p.tables[k]

\* the table name t occurs in the lower-cased question ql
NamedIn(ql, t) == Contains(ql, Lower(t))

SomeTableNamedIn(p, ql) == \E i \in DOMAIN p.tables : NamedIn(ql, p.tables[i])

RuleOrder == <<"1", "2", "2b", "3", "4", "5", "6", "7", "8", "9", "10">>

\* trigger and column/table requirement of each rule of the table, for the
\* parsed model p and the lower-cased question ql
RuleHolds(p, ql, rule) ==
  CASE rule = "1" -> Contains(ql, "engineering") /\ SomeTableHas(p, "department")
    [] rule = "2" -> /\ Contains(ql, "average") /\ Contains(ql, "salary")
                     /\ \E i \in DOMAIN p.tables :
                          TableHas(p, p.tables[i], "salary") /\ TableHas(p, p.tables[i], "department")
    [] rule = "2b" -> Contains(ql, "average") /\ Contains(ql, "salary") /\ SomeTableHas(p, "salary")
    [] rule = "3" -> /\ Contains(ql, "top") \/ Contains(ql, "highest")
                     /\ Contains(ql, "price")
                     /\ SomeTableHas(p, "price")
    [] rule = "4" -> Contains(ql, "count")
    [] rule = "5" -> /\ SomeTableNamedIn(p, ql)
                     /\ Contains(ql, "show") \/ Contains(ql, "list") \/ Contains(ql, "display")
    [] rule = "6" -> /\ Contains(ql, "stock")
                     /\ Contains(ql, "less") \/ Contains(ql, "below") \/ Contains(ql, "under")
                     /\ SomeTableHas(p, "stock_quantity")
    [] rule = "7" -> /\ Contains(ql, "sales") /\ Contains(ql, "employee")
                     /\ \E i \in DOMAIN p.tables : Contains(Lower(p.tables[i]), "sales")
                     /\ \E i \in DOMAIN p.tables : Contains(Lower(p.tables[i]), "employee")
    [] rule = "8" -> Contains(ql, "electronics") /\ SomeTableHas(p, "category")
    [] rule = "9" -> /\ Contains(ql, "hired after") \/ Contains(ql, "hire_date")
                     /\ SomeTableHas(p, "hire_date")
    [] OTHER -> TRUE

JoinSql(emp_table, sales_table) ==
  "SELECT e.name, SUM(s.total_amount) as total_sales FROM " \o emp_table \o " e JOIN "
  \o sales_table \o " s ON e.id = s.employee_id GROUP BY e.id, e.name;"

GroupedSql(t) == "SELECT department, AVG(salary) as avg_salary FROM " \o t \o " GROUP BY department;"

UngroupedSql(t) == "SELECT AVG(salary) as average_salary FROM " \o t \o ";"

EngineeringSql(t) == "SELECT * FROM " \o t \o " WHERE department = 'Engineering';"

DefaultSql(t) == "SELECT * FROM " \o t \o " LIMIT 10;"

\* the SQL the table emits for each rule
RuleSql(p, ql, rule) ==
  CASE rule = "1" -> EngineeringSql(FirstTableWith(p, [t \in Names(p.tables) |-> TableHas(p, t, "department")]))
    [] rule = "2" -> GroupedSql(FirstTableWith(p, [t \in Names(p.tables) |-> TableHas(p, t, "salary")
                                                             /\ TableHas(p, t, "department")]))
    [] rule = "2b" -> UngroupedSql(FirstTableWith(p, [t \in Names(p.tables) |-> TableHas(p, t, "salary")]))
    [] rule = "3" -> "SELECT * FROM " \o FirstTableWith(p, [t \in Names(p.tables) |-> TableHas(p, t, "price")])
                     \o " ORDER BY price DESC LIMIT 5;"
    [] rule = "4" -> "SELECT COUNT(*) as total_count FROM "
                     \o (IF SomeTableNamedIn(p, ql)
                         THEN FirstTableWith(p, [t \in Names(p.tables) |-> NamedIn(ql, t)])
                         ELSE p.tables[1]) \o ";"
    [] rule = "5" -> "SELECT * FROM " \o FirstTableWith(p, [t \in Names(p.tables) |-> NamedIn(ql, t)]) \o ";"
    [] rule = "6" -> "SELECT * FROM " \o FirstTableWith(p, [t \in Names(p.tables) |-> TableHas(p, t, "stock_quantity")])
                     \o " WHERE stock_quantity < 50;"
    [] rule = "7" -> JoinSql(FirstTableWith(p, [t \in Names(p.tables) |-> Contains(Lower(t), "employee")]),
                             FirstTableWith(p, [t \in Names(p.tables) |-> Contains(Lower(t), "sales")]))
    [] rule = "8" -> "SELECT * FROM " \o FirstTableWith(p, [t \in Names(p.tables) |-> TableHas(p, t, "category")])
                     \o " WHERE category = 'Electronics';"
    [] rule = "9" -> "SELECT * FROM " \o FirstTableWith(p, [t \in Names(p.tables) |-> TableHas(p, t, "hire_date")])
                     \o " WHERE hire_date > '2022-01-01';"
    [] OTHER -> DefaultSql(p.tables[1])

\* the lowest-numbered rule whose condition holds
WinningRule(p, ql) ==
  RuleOrder[CHOOSE k \in DOMAIN RuleOrder :
              RuleHolds(p, ql, RuleOrder[k]) /\ \A j \in 1..(k - 1) : ~RuleHolds(p, ql, RuleOrder[j])]

\* none of rules 1-9 (2b included) holds
NoRuleHolds(p, ql) == \A k \in 1..(Len(RuleOrder) - 1) : ~RuleHolds(p, ql, RuleOrder[k])

\* the parsed model of the call's schema text and its lower-cased question
\* (one-element sets, so that a formula can bind each once)
TheModel == {ParseSchema(schema_info)}

TheQuestion == {Lower(question)}

EmptySchemaMessage == "-- Please provide database schema to generate SQL"

\* C1: when the schema text yields zero tables, generate_sql returns ok = false
\* with the message "-- Please provide database schema to generate SQL", and no
\* tier beyond the rule-based one runs.
C1_EmptySchemaReportsNotOk ==
  Done("generate_sql") =>
    \A p \in TheModel :
      p.tables = <<>>
        => /\ result = Returned(EmptySchemaMessage, FALSE)
           /\ StartsWith(result.sql, "--")
           /\ tiers = <<"rule_based">>

\* C2: for a schema text with at least one table the cascade returns the SQL of
\* the lowest-numbered rule, in the order 1, 2, 2b, 3, ..., 10, whose question
\* trigger and column/table requirement both hold.
C2_LowestRuleWins ==
  Done("generate_sql_rule_based") =>
    \A p \in TheModel : \A ql \in TheQuestion :
      p.tables # <<>> => result = Returned(RuleSql(p, ql, WinningRule(p, ql)), TRUE)

\* C3: rule 2 beats rule 2b: when the question contains "average" and "salary",
\* rule 1 does not fire and some table has both a salary and a department
\* column, the output is the grouped query on such a table; the ungrouped query
\* is returned only when no table has both columns.
C3_GroupedBeatsUngrouped ==
  Done("generate_sql_rule_based") =>
    \A p \in TheModel : \A ql \in TheQuestion :
      (~RuleHolds(p, ql, "1") /\ RuleHolds(p, ql, "2"))
        => /\ \E i \in DOMAIN p.tables :
                /\ TableHas(p, p.tables[i], "salary") /\ TableHas(p, p.tables[i], "department")
                /\ result = Returned(GroupedSql(p.tables[i]), TRUE)
           /\ \A i \in DOMAIN p.tables : result.sql # UngroupedSql(p.tables[i])

\* C4: for a schema declaring the tables employees and sales, in either order
\* and whatever their columns, the question "show sales by employee" yields the
\* rule-7 JOIN with employees aliased e and sales aliased s.
C4_ShowSalesByEmployeeJoins ==
  (call \in {"generate_sql_rule_based", "generate_sql"} /\ pc = "done"
   /\ question = "show sales by employee") =>
    \A p \in TheModel :
      {p.tables[i] : i \in DOMAIN p.tables} = {"employees", "sales"}
        => result = Returned(JoinSql("employees", "sales"), TRUE)

\* C5: rule 1: when the lower-cased question contains "engineering" and some
\* table has a column named department, the output is exactly
\* SELECT * FROM <T> WHERE department = 'Engineering'; with ok = true, T the
\* first table in model order having that column, whatever other triggers the
\* question satisfies.
C5_EngineeringRuleWins ==
  Done("generate_sql_rule_based") =>
    \A p \in TheModel : \A ql \in TheQuestion :
      RuleHolds(p, ql, "1") => result = Returned(RuleSql(p, ql, "1"), TRUE)

\* C6: catch-all: for a schema text with at least one table the cascade returns
\* ok = true, and when none of rules 1-9 holds the output is exactly
\* SELECT * FROM <main table> LIMIT 10; on the first table of the schema text.
C6_CatchAllDefault ==
  (call \in {"generate_sql_rule_based", "generate_sql"} /\ pc = "done") =>
    \A p \in TheModel : \A ql \in TheQuestion :
      p.tables # <<>>
        => /\ result.ok = TRUE
           /\ result.raised = FALSE
           /\ NoRuleHolds(p, ql) => result.sql = DefaultSql(p.tables[1])

\* a call that fell to the default rule although the schema has two tables and
\* the question is not empty
C6_Witness ==
  /\ Done("generate_sql_rule_based")
  /\ question # ""
  /\ \E p \in TheModel : \E ql \in TheQuestion :
       /\ Len(p.tables) >= 2
       /\ p.tables[1] # p.tables[2]
       /\ NoRuleHolds(p, ql)
       /\ result = Returned(DefaultSql(p.tables[1]), TRUE)

\* C7: no path is fatal: for every question and schema text
\* generate_sql_rule_based, generate_sql and generate_helpful_template return a
\* (string, boolean) pair and raise nothing.
C7_NoPathIsFatal ==
  (call \in {"generate_sql_rule_based", "generate_sql", "generate_helpful_template"} /\ pc = "done")
    => /\ result.raised = FALSE
       /\ result.sql \in STRING
       /\ result.ok \in BOOLEAN

\* generate_helpful_template has returned on a text whose first lines match
\* neither notation, with a column line before any table and a "Table:" line
\* with an empty name
C7_Witness ==
  /\ Done("generate_helpful_template")
  /\ schema_info = SchemaParts[7] \o "\n" \o SchemaParts[8]
  /\ result = Returned(TemplateGeneric("", <<"">>), TRUE)

\* a usable response: HTTP 200, a non-empty JSON list whose first element has
\* generated_text, and a sanitized text longer than 10 characters
UsableResponse(r) ==
  /\ r.raises = ""
  /\ r.status = 200
  /\ r.json = "list_text"
  /\ Len(clean_sql_output(r.text)) > 10

Unavailable == "AI models unavailable. Please try again later."

\* C8: the remote tier contacts the candidate backends in their list order, each
\* at most once and the next one only after the one before gave no usable
\* response; at the first usable response its sanitized text is returned with
\* ok = true and no later backend is contacted; the call ends after at most one
\* attempt per candidate.
C8_BackendsInOrderUntilUsable ==
  call = "try_ai_generation" =>
    /\ Len(requests) <= Len(models)
    /\ \A i \in DOMAIN requests : requests[i].model = models[i]
    /\ \A i \in 1..(Len(requests) - 1) : requests[i].outcome = "failed"
    /\ pc = "posting" => (model_index = Len(requests) + 1 /\ model_index <= Len(models))
    /\ result.ok => pc = "done"
    /\ requests # <<>> =>
         IF UsableResponse(response)
         THEN /\ pc = "done"
              /\ requests[Len(requests)].outcome = "usable"
              /\ result = Returned(clean_sql_output(response.text), TRUE)
         ELSE /\ requests[Len(requests)].outcome = "failed"
              /\ result.ok = FALSE

\* the third candidate answered usably after the first two had failed
C8_Witness ==
  /\ Done("try_ai_generation")
  /\ Len(requests) = 3
  /\ requests[3] = [model |-> models[3], outcome |-> "usable"]
  /\ result = Returned("SELECT * FROM t;", TRUE)

\* C9: every per-backend failure (exception, non-200 status, body that is no
\* non-empty list, first element without usable generated_text, sanitized text
\* of at most 10 characters) means "try the next candidate" and raises nothing;
\* when every candidate failed the result is ("AI models unavailable. Please
\* try again later.", false).
C9_FailuresFallToNextCandidate ==
  call = "try_ai_generation" =>
    /\ result.raised = FALSE
    /\ (requests # <<>> /\ ~UsableResponse(response)) =>
         /\ requests[Len(requests)].outcome = "failed"
         /\ IF Len(requests) < Len(models)
            THEN pc = "posting" /\ model_index = Len(requests) + 1 /\ result = NoResult
            ELSE pc = "done" /\ result = Returned(Unavailable, FALSE)

\* all four candidates failed, the last one with a body whose generated_text
\* is null
C9_Witness ==
  /\ Done("try_ai_generation")
  /\ Len(requests) = Len(models)
  /\ \A i \in DOMAIN requests : requests[i].outcome = "failed"
  /\ response.json = "list_null_text"
  /\ result = Returned(Unavailable, FALSE)

C11_TemplateTierUnreachable ==
  Done("generate_sql") =>
    /\ \A i \in DOMAIN tiers : tiers[i] # "template"
    /\ \E r \in {generate_sql_rule_based(question, schema_info)} :
         /\ result.sql = r.sql
         /\ \/ r.ok /\ StartsWith(r.sql, "SELECT ")
            \/ ~r.ok /\ r.sql = EmptySchemaMessage

\* generate_sql has returned on a schema text that is not empty but declares
\* no table: the cascade reported not-ok, and the template tier still did not run
C11_Witness ==
  /\ Done("generate_sql")
  /\ schema_info = SchemaParts[7]
  /\ question # ""
  /\ result.sql = EmptySchemaMessage
  /\ tiers = <<"rule_based">>

\* the list holds no name twice
NoRepeats(names) == \A i, j \in DOMAIN names : i # j => names[i] # names[j]

\* C15: table names are unique within a parsed model: the ordered table
\* sequence that the cascade and the template work on holds each table name at
\* most once, and a name declared twice keeps the columns of its later
\* declaration.
C15_TableNamesUnique ==
  (call \in {"generate_sql_rule_based", "generate_helpful_template"} /\ pc = "done") =>
    /\ \A p \in TheModel : NoRepeats(p.tables)
    /\ NoRepeats(TemplateLines([tables |-> <<>>, raised |-> FALSE], Split(schema_info, "\n")).tables)

\* C20: rules 1-9 search the tables in model order and commit to the first
\* table that satisfies the rule's column or name requirement, and the table
\* name in the SQL is spelled as in the schema text: the statement returned
\* is that of a rule whose condition holds, built on the first table, in
\* model order, that meets the requirement compared on lower-cased text.
C20_FirstTableVerbatim ==
  Done("generate_sql_rule_based") =>
    \A p \in TheModel : \A ql \in TheQuestion :
      p.tables # <<>>
        => \E k \in DOMAIN RuleOrder :
             /\ RuleHolds(p, ql, RuleOrder[k])
             /\ result = Returned(RuleSql(p, ql, RuleOrder[k]), TRUE)

\* rule 1 has committed to Teams, the first of two tables with a department
\* column, matched although the schema spells the column Department, and has
\* written the name with its capital letter
C20_Witness ==
  /\ Done("generate_sql_rule_based")
  /\ schema_info = SchemaParts[6] \o "\n" \o SchemaParts[1]
  /\ question = QuestionParts[1]
  /\ result = Returned(EngineeringSql("Teams"), TRUE)

\* the statements of Statements as they read with no blank space around them
\* and every run of blank space collapsed to one space
CleanStatements ==
  <<"SELECT * FROM t;",
    "select a, b from t",
    "SELECT name FROM t WHERE created > 5",
    "WITH a AS (SELECT 1) SELECT * FROM a",
    "INSERT INTO t SELECT * FROM u",
    "UPDATE t SET x = 1",
    "Delete from t where id in (select id from u)",
    "CREATE TABLE t (id INTEGER)">>

CleanOf(statement) ==
  CleanStatements[CHOOSE i \in DOMAIN Statements : Statements[i] = statement]

\* C12: sanitizer pipeline: for raw text made of an optional opening fence, an
\* optional prefix SQL:, Query: or Answer:, a statement that begins with one
\* of the six keywords and an optional closing fence, clean_sql_output
\* returns the statement alone, trimmed and with every run of blank space
\* collapsed to one space; the fenced "SQL: SELECT * FROM t;" gives
\* "SELECT * FROM t;".
C12_SanitizerPipeline ==
  Done("clean_sql_output") =>
    /\ \A x \in FencedOutputs : x.raw = raw_output => result.sql = CleanOf(x.statement)
    /\ raw_output = Fence \o "sql\nSQL: SELECT * FROM t;\n" \o Fence
         => result.sql = "SELECT * FROM t;"

\* the columns that the plain lines of a DDL body yield, in source order
RECURSIVE PlainColumns(_)
PlainColumns(body) ==
  IF body = <<>> THEN <<>>
  ELSE (IF DdlLineParts[Head(body)].kind = "plain"
        THEN <<DdlLineParts[Head(body)].column>> ELSE <<>>)
       \o PlainColumns(Tail(body))

\* C13: DDL parsing skips every line that holds "(" or ")" once a table is
\* open, so a column whose type carries a size is dropped, while each plain
\* "<name> <type>" line yields exactly one column, in source order; the
\* one-line CREATE TABLE t (id INTEGER, name VARCHAR(50)); yields table t
\* without the column name.
C13_DdlSkipsParenthesisLines ==
  Done("parse_schema_input") =>
    /\ \A body \in DdlBodies :
         schema_text = DdlText(body)
           => result.sql = Join(<<"\nTable: t">> \o PlainColumns(body), "\n")
    /\ schema_text = OneLineDdl
         => /\ StartsWith(result.sql, "\nTable: t")
            /\ ~Contains(result.sql, "name")

\* a DDL text whose VARCHAR(50) line was dropped and whose plain line after
\* it gave its column
C13_Witness ==
  /\ Done("parse_schema_input")
  /\ schema_text = DdlText(<<2, 3>>)
  /\ result.sql = "\nTable: t\n  - email: TEXT (NOT NULL)"

\* a text in the simple notation: blank lines, "Table:" lines and "- " lines
IsSimpleNotation(text) ==
  /\ Contains(text, "Table:")
  /\ \A l \in {Strip(Split(text, "\n")[i]) : i \in DOMAIN Split(text, "\n")} :
       l = "" \/ StartsWith(l, "Table:") \/ StartsWith(l, "- ")

\* C14: canonicalization is idempotent: for a well-formed text in the simple
\* notation, parse_schema_input applied to its own output returns that output
\* unchanged, with the same tables and columns in the same order.
C14_CanonicalizationIdempotent ==
  (Done("parse_schema_input") /\ IsSimpleNotation(schema_text)) =>
    /\ parse_schema_input(result.sql) = result.sql
    /\ \E m \in {ParseSchema(result.sql)} :
         /\ m.tables = ParseSchema(schema_text).tables
         /\ m.columns = ParseSchema(schema_text).columns
         /\ m.tables # <<>>

\* a padded simple-notation text whose column lines read like DDL columns
\* came back trimmed and otherwise as written
C14_Witness ==
  /\ Done("parse_schema_input")
  /\ schema_text = "  \nTable: staff\n  - hire_date: DATE NOT NULL\n  - id: INTEGER PRIMARY KEY\n\n  "
  /\ result.sql = "Table: staff\n  - hire_date: DATE NOT NULL\n  - id: INTEGER PRIMARY KEY"

\* the keyword category of a lower-cased question, the earliest that matches
TemplateCategory(ql) ==
  IF Contains(ql, "count") \/ Contains(ql, "how many") THEN "count"
  ELSE IF Contains(ql, "average") \/ Contains(ql, "avg") \/ Contains(ql, "mean") THEN "average"
  ELSE IF Contains(ql, "top") \/ Contains(ql, "highest") \/ Contains(ql, "best")
          \/ Contains(ql, "maximum") THEN "top"
  ELSE IF Contains(ql, "show") \/ Contains(ql, "list") \/ Contains(ql, "display")
          \/ Contains(ql, "get") THEN "show"
  ELSE "generic"

\* the first line of the skeleton of each category
Headline(category) ==
  CASE category = "count" -> "-- Count query template:\n"
    [] category = "average" -> "-- Average calculation template:\n"
    [] category = "top" -> "-- Top records template:\n"
    [] category = "show" -> "-- Show records template:\n"
    [] OTHER -> "-- Generic query template based on your question:\n"

\* C17: generate_helpful_template on a schema with at least one table picks
\* its skeleton by the first matching keyword category of the lower-cased
\* question, in the order count, average, top, show, else generic, and it
\* returns ok = true for every question and schema text, zero tables included.
C17_TemplateClassification ==
  Done("generate_helpful_template") =>
    /\ result.ok = TRUE
    /\ result.raised = FALSE
    /\ \A p \in TheModel : \A ql \in TheQuestion :
         p.tables # <<>> => StartsWith(result.sql, Headline(TemplateCategory(ql)))

\* a question that names a show word before a count word got the count skeleton
C17_Witness ==
  /\ Done("generate_helpful_template")
  /\ question = "Show count"
  /\ schema_info = SchemaParts[4] \o "\n" \o SchemaParts[1]
  /\ StartsWith(result.sql, Headline("count"))
  /\ result.ok = TRUE

\* sub occurs somewhere in text
Occurs(text, sub) ==
  \E i \in 1..(Len(text) - Len(sub) + 1) : SubSeq(text, i, i + Len(sub) - 1) = sub

\* C18: every skeleton that generate_helpful_template emits for a schema with
\* at least one table names the main table in its FROM clause and lists all
\* table names of the model.
C18_SkeletonListsAllTables ==
  Done("generate_helpful_template") =>
    \A p \in TheModel :
      p.tables # <<>>
        => /\ Occurs(result.sql, "FROM " \o p.tables[1])
           /\ \A i \in DOMAIN p.tables : Occurs(result.sql, p.tables[i])

\* the text after fence and prefix removal, on which the keyword scan works
BeforeScan(raw) ==
  RemovePrefixes(RemoveFence(RemoveFence(Strip(raw), Fence \o "sql"), Fence), prefixes_to_remove)

\* the positions at which a keyword occurs first, one per keyword that occurs
KeywordPositions(text) ==
  {Find(Upper(text), sql_keywords[i]) : i \in DOMAIN sql_keywords} \ {0}

\* C19: sanitizer keyword scan: when the text after fence and prefix removal
\* holds one or more of the six keywords, in any letter case, the output is
\* the text from the earliest position at which any of them occurs, so it
\* begins with the keyword that occurs first in the text; when none occurs
\* the text is only trimmed and its blank space collapsed.
C19_CutsAtEarliestKeyword ==
  Done("clean_sql_output") =>
    \A u \in {BeforeScan(raw_output)} : \A at \in {KeywordPositions(u)} :
      IF at = {}
      THEN result.sql = Strip(CollapseWhitespace(u))
      ELSE result.sql = Strip(CollapseWhitespace(SubSeq(u, Leftmost(at), Len(u))))

\* what try_ai_generation returns to a caller that runs alone and gets the
\* responses given, from candidate i on
RECURSIVE TryAlone(_, _)
TryAlone(responses, i) ==
  IF i > Len(models)
  THEN Returned("AI models unavailable. Please try again later.", FALSE)
  ELSE IF UsableResponse(responses[i])
  THEN Returned(clean_sql_output(responses[i].text), TRUE)
  ELSE TryAlone(responses, i + 1)

\* what the caller's method returns when it runs alone
RunAlone(th) ==
  IF th.method = "try_ai_generation" THEN TryAlone(th.responses, 1) ELSE PureResult(th)

\* C16: the engine holds no mutable cross-call state: under any interleaving
\* of concurrent calls on the shared converter each call returns what it
\* returns when run alone with the same arguments and backend responses, and
\* the converter's fields models, current_model, current_model_index and
\* headers are left as __init__ set them.
C16_NoCrossCallState ==
  /\ \A c \in DOMAIN threads :
       threads[c].pc = "done" => threads[c].result = RunAlone(threads[c])
  /\ \E hf_token \in Tokens : converter = NewConverter(hf_token)

\* caller a has returned the text of its third candidate while caller b, on
\* other responses, is still inside its own loop
C16_Witness ==
  /\ DOMAIN threads = Callers
  /\ threads["a"].method = "try_ai_generation"
  /\ threads["a"].pc = "done"
  /\ threads["a"].model_index = 3
  /\ threads["a"].result = Returned("SELECT id FROM employees", TRUE)
  /\ threads["b"].method = "try_ai_generation"
  /\ threads["b"].pc = "posting"
  /\ threads["b"].model_index = 4

\* C21: rule 4: when the lower-cased question contains "count" and none of
\* rules 1-3 holds, the output is SELECT COUNT(*) as total_count FROM <T>; where
\* T is the first table in model order whose lower-cased name occurs in the
\* question, and the main table when no table name occurs in it, whether or not
\* the triggers of rules 5-9 hold as well.
C21_CountRule ==
  (call \in {"generate_sql_rule_based", "generate_sql"} /\ pc = "done") =>
    \A p \in TheModel : \A ql \in TheQuestion :
      (/\ p.tables # <<>>
       /\ Contains(ql, "count")
       /\ \A rule \in {"1", "2", "2b", "3"} : ~RuleHolds(p, ql, rule))
        => result = Returned(RuleSql(p, ql, "4"), TRUE)

\* a count over the second table of the schema, the one the question names,
\* on a question that holds the trigger of rule 7 as well
C21_Witness ==
  /\ Done("generate_sql_rule_based")
  /\ \E p \in TheModel : \E ql \in TheQuestion :
       /\ Len(p.tables) = 2
       /\ Contains(ql, "count")
       /\ ~NamedIn(ql, p.tables[1])
       /\ NamedIn(ql, p.tables[2])
       /\ RuleHolds(p, ql, "7")
       /\ result = Returned("SELECT COUNT(*) as total_count FROM " \o p.tables[2] \o ";", TRUE)

\* a count on a question that names no table: the main table is counted
C21_WitnessMainTable ==
  /\ Done("generate_sql")
  /\ \E p \in TheModel : \E ql \in TheQuestion :
       /\ Len(p.tables) = 2
       /\ Contains(ql, "count")
       /\ ~SomeTableNamedIn(p, ql)
       /\ result = Returned("SELECT COUNT(*) as total_count FROM " \o p.tables[1] \o ";", TRUE)

\* the columns the simple notation gives the lines of a body, in order
ParserColumns(body) ==
  SelectSeq([i \in DOMAIN body |-> ParserLineParts[body[i]].column], LAMBDA c : c # "")

\* C22: simple-notation parsing: while a table is open, a line made of "-",
\* zero or more whitespace characters and name: type adds one column whose
\* name is the trimmed text left of the first ":"; a line of neither shape,
\* an empty line and a column line before any "Table:" line add no table and
\* no column and raise no error.
C22_SimpleNotationColumns ==
  Done("generate_sql_rule_based") =>
    \A pre \in ParserPreludes : \A body \in ParserBodies :
      schema_info = ParserText(pre, body) =>
        \A p \in TheModel :
          /\ p.raised = FALSE
          /\ result.raised = FALSE
          /\ p.tables = <<"staff">>
          /\ p.columns["staff"] = ParserColumns(body)

\* the part of C22 on lines that add nothing: the parse never raises and finds
\* the one table, and a body of lines of neither shape leaves it without columns
C22_MalformedLinesAddNothing ==
  Done("generate_sql_rule_based") =>
    \A pre \in ParserPreludes : \A body \in ParserBodies :
      schema_info = ParserText(pre, body) =>
        \A p \in TheModel :
          /\ p.raised = FALSE
          /\ result.raised = FALSE
          /\ p.tables = <<"staff">>
          /\ ParserColumns(body) = <<>> => p.columns["staff"] = <<>>

\* C23: DDL table detection: a line beginning with CREATE TABLE in any letter
\* case, whose identifier is bare, backtick-quoted or double-quoted, opens a
\* table of that name, and the column lines up to the next CREATE TABLE line
\* are listed under that table and under no earlier one.
C23_CreateTableOpensTable ==
  Done("parse_schema_input") =>
    \A keyword \in CreateKeywords : \A first, second \in IdentifierForms :
      schema_text = TwoTableDdl(keyword, first, second) =>
        result.sql = "\nTable: users\n  - id: INTEGER\n\nTable: orders\n  - total: REAL"

\* the part of C23 on bare and backtick-quoted identifiers
C23_BareAndBacktick ==
  Done("parse_schema_input") =>
    \A keyword \in CreateKeywords : \A first, second \in IdentifierForms \ {"double"} :
      schema_text = TwoTableDdl(keyword, first, second) =>
        result.sql = "\nTable: users\n  - id: INTEGER\n\nTable: orders\n  - total: REAL"

\* the second table is written with double quotes: its column goes under the first
C23_ColumnUnderEarlierTable ==
  /\ Done("parse_schema_input")
  /\ schema_text = TwoTableDdl("CREATE TABLE", "bare", "double")
  /\ result.sql = "\nTable: users\n  - id: INTEGER\n  - total: REAL"

\* the text of the constraint occurs in the phrases of the body, in any letter case
Named(body, constraint) ==
  \E i \in DOMAIN body : Upper(ConstraintPhrases[body[i]]) = constraint

\* C24: constraint detection is substring-based: on a retained column line each
\* of PRIMARY KEY, FOREIGN KEY, NOT NULL and UNIQUE whose text occurs in the
\* line, in any letter case, is attached to the column in the output, and none
\* is attached whose text does not occur in the line.
C24_ConstraintsDetected ==
  Done("parse_schema_input") =>
    \A body \in ConstraintBodies :
      schema_text = ConstraintDdl(body) =>
        /\ StartsWith(result.sql, "\nTable: t\n  - code: INT")
        /\ \A constraint \in {"PRIMARY KEY", "FOREIGN KEY", "NOT NULL", "UNIQUE"} :
             Occurs(result.sql, constraint) <=> Named(body, constraint)

\* the part of C24 on the three constraints other than UNIQUE
C24_ThreeConstraintsDetected ==
  Done("parse_schema_input") =>
    \A body \in ConstraintBodies :
      schema_text = ConstraintDdl(body) =>
        /\ StartsWith(result.sql, "\nTable: t\n  - code: INT")
        /\ \A constraint \in {"PRIMARY KEY", "FOREIGN KEY", "NOT NULL"} :
             Occurs(result.sql, constraint) <=> Named(body, constraint)

\* a column declared UNIQUE and NOT NULL comes out with NOT NULL alone
C24_UniqueDropped ==
  /\ Done("parse_schema_input")
  /\ schema_text = "CREATE TABLE t (\n  code INT UNIQUE NOT NULL\n);"
  /\ result.sql = "\nTable: t\n  - code: INT (NOT NULL)"

\* the constraints among the listed ones that the body names, in listed order
Present(body, listed) == SelectSeq(listed, LAMBDA constraint : Named(body, constraint))

\* the output for the body when constraints are joined in the listed order
Serialized(body, listed) ==
  "\nTable: t\n  - code: INT"
  \o (IF Present(body, listed) # <<>> THEN " (" \o Join(Present(body, listed), ", ") \o ")" ELSE "")

\* C25 as stated: several constraints are joined in the fixed order PRIMARY
\* KEY, NOT NULL, FOREIGN KEY, whatever their order in the source line; a line
\* with NOT NULL and PRIMARY KEY gives (PRIMARY KEY, NOT NULL).
C25_PrimaryKeyFirst ==
  Done("parse_schema_input") =>
    \A body \in ConstraintBodies :
      (schema_text = ConstraintDdl(body) /\ ~Named(body, "UNIQUE")) =>
        result.sql = Serialized(body, <<"PRIMARY KEY", "NOT NULL", "FOREIGN KEY">>)

\* C25 amended: several constraints are joined in the fixed order NOT NULL,
\* PRIMARY KEY, FOREIGN KEY, whatever their order in the source line; a line
\* with NOT NULL and PRIMARY KEY gives (NOT NULL, PRIMARY KEY).
C25_DetectionOrder ==
  Done("parse_schema_input") =>
    \A body \in ConstraintBodies :
      (schema_text = ConstraintDdl(body) /\ ~Named(body, "UNIQUE")) =>
        result.sql = Serialized(body, <<"NOT NULL", "PRIMARY KEY", "FOREIGN KEY">>)

\* PRIMARY KEY stands before NOT NULL in the source line and after it in the output
C25_Witness ==
  /\ Done("parse_schema_input")
  /\ schema_text = "CREATE TABLE t (\n  code INT PRIMARY KEY NOT NULL\n);"
  /\ result.sql = "\nTable: t\n  - code: INT (NOT NULL, PRIMARY KEY)"

\* the statement of rule 3 on table t
TopPriceSql(t) == "SELECT * FROM " \o t \o " ORDER BY price DESC LIMIT 5;"

\* the statement returned is one of rule 1, of rules 2/2b, of rule 3, on some table
OfRule(p, sql, rule) ==
  \E i \in DOMAIN p.tables :
    CASE rule = "1" -> sql = EngineeringSql(p.tables[i])
      [] rule = "2b" -> sql \in {GroupedSql(p.tables[i]), UngroupedSql(p.tables[i])}
      [] OTHER -> sql = TopPriceSql(p.tables[i])

\* rules 2/2b and 3 take a column whatever the case of its letters
CasedColumnsMatch(p, ql, sql) ==
  /\ (~RuleHolds(p, ql, "1") /\ RuleHolds(p, ql, "2b")) => OfRule(p, sql, "2b")
  /\ (~RuleHolds(p, ql, "1") /\ ~RuleHolds(p, ql, "2b") /\ RuleHolds(p, ql, "3")) => OfRule(p, sql, "3")

\* C26: column requirements are matched case-insensitively in every rule of
\* the cascade, rule 1 included: a column spelled Department or DEPARTMENT
\* satisfies the requirement of rule 1 for a question containing "engineering"
\* as a column spelled Salary satisfies rules 2/2b and Price rule 3.
C26_ColumnsMatchedInAnyCase ==
  Done("generate_sql_rule_based") =>
    \A p \in TheModel : \A ql \in TheQuestion :
      /\ RuleHolds(p, ql, "1") => OfRule(p, result.sql, "1")
      /\ CasedColumnsMatch(p, ql, result.sql)

\* the part of C26 on rules 2/2b and 3
C26_SalaryAndPriceInAnyCase ==
  Done("generate_sql_rule_based") =>
    \A p \in TheModel : \A ql \in TheQuestion : CasedColumnsMatch(p, ql, result.sql)

\* rule 3 has fired on a column spelled Price
C26_PriceMatched ==
  /\ Done("generate_sql_rule_based")
  /\ schema_info = "Table: Items\n  - Price: REAL"
  /\ result = Returned(TopPriceSql("Items"), TRUE)

\* rule 1 has not fired on a column spelled DEPARTMENT: the default statement is returned
C26_DepartmentMissed ==
  /\ Done("generate_sql_rule_based")
  /\ schema_info = "Table: Depts\n  - DEPARTMENT: TEXT"
  /\ question = QuestionParts[1]
  /\ result = Returned(DefaultSql("Depts"), TRUE)

\* the text holds one of the keywords the sanitizer looks for
HoldsKeyword(text) == \E k \in DOMAIN sql_keywords : Occurs(Upper(text), sql_keywords[k])

\* C27: clean_sql_output is idempotent: clean(clean(raw)) = clean(raw) for
\* every raw text; a second pass strips no further prefix, fence or leading
\* prose from a cleaned text.
C27_CleanIdempotent ==
  Done("clean_sql_output") => clean_sql_output(result.sql) = result.sql

\* the part of C27 on texts that hold a statement keyword
C27_IdempotentOnStatements ==
  (Done("clean_sql_output") /\ HoldsKeyword(result.sql))
    => clean_sql_output(result.sql) = result.sql

\* a cleaned text that still starts with a prefix, which a second pass strips
C27_PrefixLeft ==
  /\ Done("clean_sql_output")
  /\ raw_output = "Answer: SQL: no idea"
  /\ result.sql = "SQL: no idea"
  /\ clean_sql_output(result.sql) = "no idea"

\* the lines of the body that are not blank, in order
NonBlank(body) == SelectSeq(body, LAMBDA k : ExtractedLineParts[k].text # "")

\* the output has one line for every non-blank line of the body, and the line
\* of every part among those marked is the part's own text
LinesKept(body, text, marked) ==
  LET kept == NonBlank(body)
      out == IF text = "" THEN <<>> ELSE Split(text, "\n")
  IN /\ Len(out) = Len(kept)
     /\ \A j \in DOMAIN kept : kept[j] \in marked => out[j] = ExtractedLineParts[kept[j]].text

\* the tables and columns the stub template lists
StubTables == <<"users", "products", "orders">>

StubColumns ==
  [t \in {"users", "products", "orders"} |->
     CASE t = "users" -> <<"id", "username", "email", "created_at", "updated_at">>
       [] t = "products" -> <<"id", "name", "description", "price", "category_id",
                              "stock_quantity", "created_at">>
       [] OTHER -> <<"id", "user_id", "total_amount", "status", "order_date">>]

\* C30: format_extracted_schema leaves lines already in the simple notation
\* unchanged: a "Table: x" line is kept as is, and a "  - col: type" line comes
\* out with a single "  - " prefix and never as a "Table:" line, whatever the
\* column name (created_at); hence the text that extract_schema_from_image
\* returns for the stub template parses to the tables users, products and
\* orders with the columns the template lists.
C30_SimpleNotationKept ==
  /\ Done("format_extracted_schema") =>
       \A body \in ExtractedBodies :
         raw_text = ExtractedText(body) =>
           LinesKept(body, result.sql, {k \in DOMAIN ExtractedLineParts : ExtractedLineParts[k].simple})
  /\ (Done("extract_schema_from_image") /\ raw_text = analyze_image_content) =>
       \A p \in {ParseSchema(result.sql)} :
         /\ p.tables = StubTables
         /\ \A t \in DOMAIN StubColumns : p.columns[t] = StubColumns[t]

\* the part of C30 on "Table:" lines
C30_TableLinesKept ==
  Done("format_extracted_schema") =>
    \A body \in ExtractedBodies :
      raw_text = ExtractedText(body) =>
        LinesKept(body, result.sql,
                  {k \in DOMAIN ExtractedLineParts : StartsWith(ExtractedLineParts[k].text, "Table:")})

\* the column line of created_at has come out as a "Table:" line
C30_CreatedAtBecomesTable ==
  /\ Done("format_extracted_schema")
  /\ raw_text = "Table: users\n  - created_at: TIMESTAMP"
  /\ result.sql = "Table: users\nTable: - created_at: TIMESTAMP"

\* a column line has come out with its dash doubled
C30_DashDoubled ==
  /\ Done("format_extracted_schema")
  /\ raw_text = "Table: users\n  - id: INTEGER (PRIMARY KEY)"
  /\ result.sql = "Table: users\n  - - id: INTEGER (PRIMARY KEY)"

\* the text returned for the stub template parses to five tables, two of them
\* named after a created_at line, and to column names that start with a dash
C30_StubMisparsed ==
  /\ Done("extract_schema_from_image")
  /\ raw_text = analyze_image_content
  /\ \E p \in {ParseSchema(result.sql)} :
       /\ p.tables = <<"users", "- created_at", "products", "- created_at", "orders">>
       /\ p.columns["users"] = <<"- id", "- username", "- email">>

\* the entries that extract_from_ddl puts on its list schema_info for the
\* text of the schema box, which parse_schema_input strips first
Emitted(text) ==
  DdlLines([schema_info |-> <<>>, open |-> FALSE, current_table |-> ""],
           Split(Strip(text), "\n")).schema_info

IsTableEntry(entry) == StartsWith(entry, "\nTable: ")

\* the name that an entry "\nTable: <name>" or "  - <name>: <type>..." carries
EntryName(entry) ==
  IF IsTableEntry(entry) THEN SubSeq(entry, 9, Len(entry))
  ELSE SubSeq(entry, 5, Find(entry, ": ") - 1)

\* the position of the table entry that the entry at position i stands under
Declaration(entries, i) ==
  CHOOSE k \in 1..i : IsTableEntry(entries[k]) /\ \A j \in (k + 1)..i : ~IsTableEntry(entries[j])

EmittedTables(entries) ==
  LET declared == SelectSeq(entries, LAMBDA entry : IsTableEntry(entry))
  IN [i \in DOMAIN declared |-> EntryName(declared[i])]

\* the columns among the entries that stand under one of the declarations
ColumnsUnder(entries, declarations) ==
  LET listed == SelectSeq([i \in DOMAIN entries |-> i],
                          LAMBDA i : ~IsTableEntry(entries[i])
                                     /\ Declaration(entries, i) \in declarations)
  IN [n \in DOMAIN listed |-> EntryName(entries[listed[n]])]

\* the positions of the declarations of table t, and the last of them
DeclarationsOf(entries, t) ==
  {k \in DOMAIN entries : IsTableEntry(entries[k]) /\ EntryName(entries[k]) = t}

LastDeclarationOf(entries, t) ==
  {k \in DeclarationsOf(entries, t) : \A j \in DeclarationsOf(entries, t) : j <= k}

\* a run of main has generated from a custom schema that extract_from_ddl rewrote
GeneratedFromDdl ==
  /\ Done("main")
  /\ tiers # <<>>
  /\ mode # "Sample Database"
  /\ Emitted(schema_text) # <<>>

\* C28 as stated: the tables and the columns per table that
\* generate_sql_rule_based parses out of extract_from_ddl's output are the
\* tables and columns that extract_from_ddl emitted, in the same order and
\* with the same names; no emitted column is lost, also when the DDL
\* declares the same table name twice.
C28_EveryEmittedColumnRecovered ==
  GeneratedFromDdl =>
    \A p \in TheModel : \A entries \in {Emitted(schema_text)} :
      /\ ~p.raised
      /\ p.tables = EmittedTables(entries)
      /\ \A i \in DOMAIN p.tables :
           p.columns[p.tables[i]] = ColumnsUnder(entries, DeclarationsOf(entries, p.tables[i]))

\* C28 amended: the tables parsed are the tables emitted, in the same order
\* and with the same names, a name declared twice standing twice; the
\* columns parsed for a name are the columns emitted under the last
\* declaration of that name, in the same order and with the same names, and
\* the columns emitted under an earlier declaration of the name are dropped.
C28_LastDeclarationRecovered ==
  GeneratedFromDdl =>
    \A p \in TheModel : \A entries \in {Emitted(schema_text)} :
      /\ ~p.raised
      /\ p.tables = EmittedTables(entries)
      /\ \A i \in DOMAIN p.tables :
           p.columns[p.tables[i]] = ColumnsUnder(entries, LastDeclarationOf(entries, p.tables[i]))

\* users is declared twice: both declarations are parsed, the column of the first is gone
C28_Witness ==
  /\ GeneratedFromDdl
  /\ schema_text = StatementParts[1] \o "\n" \o StatementParts[2]
  /\ schema_info = "\nTable: users\n  - id: INTEGER\n\nTable: users\n  - email: TEXT (NOT NULL)\n  - name: TEXT"
  /\ \A p \in TheModel :
       p.tables = <<"users", "users">> /\ p.columns["users"] = <<"email", "name">>

\* without a repeated name every emitted column is recovered under its table
C28_DistinctNamesRecovered ==
  GeneratedFromDdl =>
    \A p \in TheModel : \A entries \in {Emitted(schema_text)} :
      (\A t \in DOMAIN p.columns : \A j, k \in DeclarationsOf(entries, t) : j = k) =>
        \A i \in DOMAIN p.tables :
          p.columns[p.tables[i]] = ColumnsUnder(entries, DeclarationsOf(entries, p.tables[i]))

\* two tables declared once each keep their columns, each under its name
C28_TwoTablesRecovered ==
  /\ GeneratedFromDdl
  /\ schema_text = StatementParts[3] \o "\n" \o StatementParts[1]
  /\ \A p \in TheModel :
       /\ p.tables = <<"orders", "users">>
       /\ p.columns["orders"] = <<"total", "id">>
       /\ p.columns["users"] = <<"id">>

\* the entries stand newest first: the run that added an entry is later than
\* the run that added the entry behind it
NewestFirst(history) ==
  \A i, j \in DOMAIN history : i < j => history[i].timestamp > history[j].timestamp

\* the entries of the history before the step that the step keeps
Kept(history) ==
  SubSeq(history, 1, IF Len(history) < HistoryLimit THEN Len(history) ELSE HistoryLimit - 1)

\* C29: the query history is bounded and ordered.  After any sequence of
\* generate requests it holds at most 10 entries, newest first; an entry is
\* added only for a request with a question that is not blank whose
\* generation reported success; adding an entry when 10 are present drops
\* the oldest one and leaves the other nine in their relative order.
C29_HistoryBoundedNewestFirst ==
  [][/\ Len(query_history') <= HistoryLimit
     /\ NewestFirst(query_history')
     /\ query_history' # query_history =>
          /\ call' = "main"
          /\ Strip(question') # ""
          /\ result'.ok /\ ~result'.raised
          /\ Head(query_history') =
               [question |-> question', sql |-> result'.sql, mode |-> mode', timestamp |-> clock']
          /\ Tail(query_history') = Kept(query_history)
          /\ Len(query_history) = HistoryLimit =>
               /\ Len(query_history') = HistoryLimit
               /\ \A i \in 1..(HistoryLimit - 1) : query_history'[i + 1] = query_history[i]]_vars

\* the eleventh successful request has pushed the first one out: ten entries, the
\* newest of this run at the head, the entry of the second request at the end
C29_Witness ==
  /\ Done("main")
  /\ Len(query_history) = HistoryLimit
  /\ query_history[1].timestamp = clock
  /\ query_history[HistoryLimit].timestamp = 2
  /\ clock = HistoryLimit + 1
  /\ result.ok

\* a run with "Use AI as primary method" ticked ends in the AttributeError
\* and leaves a history that holds entries as it was
C29_FailedRunAddsNothing ==
  /\ Done("main")
  /\ result.raised
  /\ Strip(question) # ""
  /\ Len(query_history) = 2
  /\ query_history[1].timestamp < clock

\* runs with a blank question, or stopped for want of a schema, add nothing
C29_BlankAddsNothing ==
  (Done("main") /\ (Strip(question) = "" \/ (Strip(schema_text) = "" /\ mode # "Sample Database")))
    => (\A i \in DOMAIN query_history : query_history[i].timestamp < clock)

====
